---- MODULE Spec2Model ----
(***************************************************************************)
(* Model of the share-payload builder of personal-koi-mcp                  *)
(* (src/src/koi-api-tools.ts, buildSharePayload and its helpers), of the   *)
(* share_document handler that calls it, and of the entity resolver        *)
(* (src/src/entity-resolver.ts), and of the vault tools and the link       *)
(* resolution with their paths.  Each has its own specification: Spec and  *)
(* FairSpec for the builder, HandlerSpec, NormalizeSpec, ResolverSpec and  *)
(* VaultSpec; the variables of the others stay at their idle values.       *)
(*                                                                         *)
(* Under Spec one behaviour is one call of buildSharePayload.  The initial *)
(* state is                                                                *)
(* the state right before the while loop (line 469): the root document has *)
(* been read and cached, the root node and the root queue entry exist.     *)
(* The vault is the environment: a document's byte size is drawn when      *)
(* getDocContent first reads it (and is cached from then on), and a read   *)
(* of an uncached document may fail.  The list that                        *)
(* extractReferencesFromMarkdown returns for the current document is drawn *)
(* one reference at a time, as the for loop walks it: each turn draws the  *)
(* reference it evaluates and whether another one follows.  The documents  *)
(* scanned in one build hold at most MaxVaultRefs references in total.     *)
(* A reference is kept as (raw_target, required); raw targets are named    *)
(* after the path they resolve to, so several references of one document   *)
(* may share target and required flag (they differ in link type or         *)
(* spelling in the source document).                                       *)
(* Two history variables record what the code does not keep: readFailures  *)
(* holds the index of every edge whose dependency read threw (line 513),   *)
(* unfollowed holds the bundled dependencies that hold references of their *)
(* own and were not queued because the depth limit was reached.            *)
(***************************************************************************)
EXTENDS Integers, Sequences, FiniteSets, TLC

\* ---------------------------------------------------------------- bounds
MaxVaultRefs == 3
MaxOptionalLimit == 1
MaxStrLen == 3
MaxPasses == 2
MaxEntities == 6

\* ------------------------------------------------------------- constants
MAX_SHARE_PAYLOAD_BYTES == 2 * 1024 * 1024
MAX_CONTEXT_DEPTH == 4
SHARE_MODES == {"root_only", "root_plus_required", "context_pack"}

\* ------------------------------------------------------------- the vault
normalizedDocPath == "a.md"
Docs == {"a.md", "b.md", "c.md"}
MissingTarget == "x.md"
Targets == Docs \cup {MissingTarget}
NoPath == "none"
NoReason == "none"
NoDepth == 0 - 1

RootSizes == {1, MAX_SHARE_PAYLOAD_BYTES - 1, MAX_SHARE_PAYLOAD_BYTES + 1}
DepSizes == {1, 2}

ShareRef == [raw_target : Targets, required : BOOLEAN]

VARIABLES
  mode, optionalLimit, contextDepth,
  docContentCache,
  dependencyDocs, allRefs, graphEdges, graphNodes,
  includedPaths, processedPaths, queuedPaths, traversalQueue,
  optionalIncluded, currentBytes, maxDepthReached,
  current, pc, report,
  pushLog, extractLog,
  readFailures, unfollowed

\* the share_document handler (handleKoiApiTool, lines 1150-1217): its
\* arguments, its locals and position, the result it returned, the calls of
\* buildSharePayload it made and the bodies it posted to /koi-net/share
VARIABLES args, handler, result, builds, posts

buildVars == <<mode, optionalLimit, contextDepth, docContentCache,
               dependencyDocs, allRefs, graphEdges, graphNodes, includedPaths,
               processedPaths, queuedPaths, traversalQueue, optionalIncluded,
               currentBytes, maxDepthReached, current, pc, report,
               pushLog, extractLog, readFailures, unfollowed>>

handlerVars == <<args, handler, result, builds, posts>>

\* an EntityResolver (src/src/entity-resolver.ts, lines 165-292): its
\* configuration, its index, and the resolve call that has just been made,
\* with what it returned or threw; and, as history, the name keys that the
\* index held before the last loadEntities call and the collection passed
\* to that call does not hold
VARIABLES config, lookup, mention, resolution, dropped

resolverVars == <<config, lookup, mention, resolution, dropped>>

\* normalizeForComparison applied over and over to one string: the string
\* and the results of the passes made so far
VARIABLES input, passes

normalizeVars == <<input, passes>>

\* the files on disk, inside the vault root and outside it; the vault tool or
\* link resolution that has just run, with what it returned; and, as
\* history, every filesystem operation made so far with the absolute path it
\* was made on
VARIABLES vaultFiles, vaultCall, vaultAnswer, fsOps

vaultVars == <<vaultFiles, vaultCall, vaultAnswer, fsOps>>

\* the variables that one call of buildSharePayload leaves alone
outsideBuild == <<handlerVars, resolverVars, normalizeVars, vaultVars>>

\* the variables that one call of the share_document handler leaves alone
outsideHandler == <<buildVars, resolverVars, normalizeVars, vaultVars>>

\* the variables that an EntityResolver leaves alone
outsideResolver == <<buildVars, handlerVars, normalizeVars, vaultVars>>

\* the variables that normalizeForComparison leaves alone
outsideNormalize == <<buildVars, handlerVars, resolverVars, vaultVars>>

\* the variables that the vault tools and the link resolution leave alone
outsideVault == <<buildVars, handlerVars, resolverVars, normalizeVars>>

vars == <<buildVars, handlerVars, resolverVars, normalizeVars, vaultVars>>

\* ---------------------------------------------------------------- helpers
PathRank(p) == IF p = "a.md" THEN 1 ELSE IF p = "b.md" THEN 2 ELSE IF p = "c.md" THEN 3 ELSE 4

resolveLocalNoteTarget(sourceDocPath, rawTarget) ==
  IF rawTarget \in Docs
  THEN [exists |-> TRUE, resolvedPath |-> rawTarget]
  ELSE [exists |-> FALSE, resolvedPath |-> NoPath]

NodeIndex(nodes, docPathRel) ==
  IF \E i \in 1..Len(nodes) : nodes[i].vault_path = docPathRel
  THEN CHOOSE i \in 1..Len(nodes) : nodes[i].vault_path = docPathRel
  ELSE 0

\* addGraphNode with the depth of the latest discovery written over the stored one
addGraphNodeLatestDepth(nodes, docPathRel, depth, included) ==
  LET i == NodeIndex(nodes, docPathRel) IN
  IF i = 0
  THEN Append(nodes, [vault_path |-> docPathRel, depth |-> depth, included |-> included,
                      role |-> IF docPathRel = normalizedDocPath THEN "root" ELSE "dependency"])
  ELSE [nodes EXCEPT ![i] = [@ EXCEPT !.depth = depth,
                                      !.included = IF included THEN TRUE ELSE @]]

addGraphNode(nodes, docPathRel, depth, included) ==
  LET i == NodeIndex(nodes, docPathRel) IN
  IF i = 0
  THEN Append(nodes, [vault_path |-> docPathRel, depth |-> depth, included |-> included,
                      role |-> IF docPathRel = normalizedDocPath THEN "root" ELSE "dependency"])
  ELSE [nodes EXCEPT ![i] = [@ EXCEPT !.depth = IF depth < @ THEN depth ELSE @,
                                      !.included = IF included THEN TRUE ELSE @]]

\* bug: root_plus_required admits every reference
modeAllowsAnyRef(ref) ==
  IF mode = "root_only" THEN FALSE
  ELSE IF mode = "root_plus_required" THEN TRUE
  ELSE IF ref.required THEN TRUE
  ELSE optionalIncluded < optionalLimit

\* bug: off by one on the optional budget
modeAllowsOneMore(ref) ==
  IF mode = "root_only" THEN FALSE
  ELSE IF mode = "root_plus_required" THEN ref.required
  ELSE IF ref.required THEN TRUE
  ELSE optionalIncluded <= optionalLimit

modeAllowsInclude(ref) ==
  IF mode = "root_only" THEN FALSE
  ELSE IF mode = "root_plus_required" THEN ref.required
  ELSE IF ref.required THEN TRUE
  ELSE optionalIncluded < optionalLimit

ModeSkipReason(ref) ==
  IF mode = "context_pack" /\ ~ref.required THEN "optional_limit" ELSE "mode"

\* bug: the ceiling is applied to the dependency alone, not to the running total
OverLimitDepOnly(bytes, depBytes) == depBytes > MAX_SHARE_PAYLOAD_BYTES

OverPayloadLimit(bytes, depBytes) == bytes + depBytes > MAX_SHARE_PAYLOAD_BYTES

\* bug: the dedup test is dropped
NeverIncluded(p) == FALSE

AlreadyIncluded(p) == p \in includedPaths

\* bug: the queued test is dropped
NeverQueued(p) == FALSE

AlreadyQueued(p) == p \in queuedPaths

AlreadyProcessed(p) == p \in processedPaths

\* a variant that follows references one level too deep
shouldTraverseOneMore(depth) == contextDepth >= depth + 1

shouldTraverse(depth) == contextDepth > depth + 1

\* bug: the head of the queue is read but not removed
ShiftKeep(q) == q

Shift(q) == Tail(q)

\* a push that puts the new entry at the head of the queue
pushAtHead(q, entry) == <<entry>> \o q

\* traversalQueue.push (lines 539-544)
push(q, entry) == Append(q, entry)

\* getDocContent: the cached size, or a fresh read that yields a size or throws
ReadOutcomes(p) ==
  IF p \in DOMAIN docContentCache
  THEN {[ok |-> TRUE, bytes |-> docContentCache[p]]}
  ELSE {[ok |-> TRUE, bytes |-> b] : b \in DepSizes} \cup {[ok |-> FALSE, bytes |-> 0]}

\* no EntityResolver exists
ResolverIdle ==
  /\ config = [idle |-> TRUE]
  /\ lookup = [loaded |-> FALSE]
  /\ mention = [given |-> FALSE]
  /\ resolution = [kind |-> "none"]
  /\ dropped = {}

\* no vault tool and no link resolution is under study
VaultIdle ==
  /\ vaultFiles = {}
  /\ vaultCall = [op |-> "none"]
  /\ vaultAnswer = [returned |-> FALSE]
  /\ fsOps = {}

\* normalizeForComparison is not under study
NormalizeIdle ==
  /\ input = <<>>
  /\ passes = <<>>

\* no share_document call is under way
HandlerIdle ==
  /\ args = [idle |-> TRUE]
  /\ handler = [pc |-> "idle"]
  /\ result = [returned |-> FALSE]
  /\ builds = <<>>
  /\ posts = <<>>

\* ------------------------------------------------------------------- Init
Init ==
  /\ mode \in SHARE_MODES
  /\ optionalLimit \in 0..MaxOptionalLimit
  /\ contextDepth \in 1..MAX_CONTEXT_DEPTH
  /\ \E b \in RootSizes :
       /\ docContentCache = (normalizedDocPath :> b)
       /\ currentBytes = b
  /\ dependencyDocs = <<>>
  /\ allRefs = <<>>
  /\ graphEdges = <<>>
  /\ graphNodes = <<[vault_path |-> normalizedDocPath, depth |-> 0, included |-> TRUE, role |-> "root"]>>
  /\ includedPaths = {}
  /\ processedPaths = {}
  /\ queuedPaths = {normalizedDocPath}
  /\ traversalQueue = <<[docPath |-> normalizedDocPath, depth |-> 0]>>
  /\ optionalIncluded = 0
  /\ maxDepthReached = 0
  /\ current = [docPath |-> NoPath, depth |-> 0]
  /\ pc = "loop"
  /\ report = [built |-> FALSE]
  /\ pushLog = <<normalizedDocPath>>
  /\ extractLog = <<>>
  /\ readFailures = {}
  /\ unfollowed = {}
  /\ HandlerIdle
  /\ ResolverIdle
  /\ NormalizeIdle
  /\ VaultIdle


\* whether extractReferencesFromMarkdown's list holds one more reference after
\* `seen` references have been met in this build
MoreRefs(seen) == IF seen < MaxVaultRefs THEN BOOLEAN ELSE {FALSE}

\* ------------------------------------------------------------ the report
IsMissing(edge) == ~edge.exists \/ ~edge.included

missingReferences(edges) == SelectSeq(edges, IsMissing)

EdgeReason(edge) ==
  IF edge.skip_reason # NoReason THEN edge.skip_reason
  ELSE IF ~edge.exists THEN "unresolved" ELSE "excluded"

RECURSIVE excludedByReason(_)
excludedByReason(missing) ==
  IF missing = <<>> THEN << >>
  ELSE LET acc == excludedByReason(SubSeq(missing, 1, Len(missing) - 1))
           reason == EdgeReason(missing[Len(missing)])
       IN IF reason \in DOMAIN acc
          THEN [acc EXCEPT ![reason] = @ + 1]
          ELSE acc @@ (reason :> 1)

IsExisting(edge) == edge.exists
IsUnresolved(edge) == ~edge.exists
IsIncluded(edge) == edge.included
IsRequired(edge) == edge.required
IsOptional(edge) == ~edge.required

NodeBefore(a, b) ==
  \/ a.depth < b.depth
  \/ a.depth = b.depth /\ PathRank(a.vault_path) <= PathRank(b.vault_path)

RECURSIVE InsertNode(_, _)
InsertNode(sorted, n) ==
  IF sorted = <<>> THEN <<n>>
  ELSE IF NodeBefore(Head(sorted), n) THEN <<Head(sorted)>> \o InsertNode(Tail(sorted), n)
  ELSE <<n>> \o sorted

RECURSIVE SortNodes(_)
SortNodes(nodes) ==
  IF nodes = <<>> THEN <<>>
  ELSE InsertNode(SortNodes(SubSeq(nodes, 1, Len(nodes) - 1)), nodes[Len(nodes)])

\* bug: required_missing is counted over all edges instead of the missing ones
SummaryOverAll(edges) ==
  LET missing == missingReferences(edges) IN
  [total_references      |-> Len(edges),
   resolved_references   |-> Len(SelectSeq(edges, IsExisting)),
   unresolved_references |-> Len(SelectSeq(edges, IsUnresolved)),
   included_references   |-> Len(SelectSeq(edges, IsIncluded)),
   missing_references    |-> Len(missing),
   required_missing      |-> Len(SelectSeq(edges, IsRequired)),
   optional_missing      |-> Len(SelectSeq(missing, IsOptional)),
   excluded_by_reason    |-> excludedByReason(missing)]

Summary(edges) ==
  LET missing == missingReferences(edges) IN
  [total_references      |-> Len(edges),
   resolved_references   |-> Len(SelectSeq(edges, IsExisting)),
   unresolved_references |-> Len(SelectSeq(edges, IsUnresolved)),
   included_references   |-> Len(SelectSeq(edges, IsIncluded)),
   missing_references    |-> Len(missing),
   required_missing      |-> Len(SelectSeq(missing, IsRequired)),
   optional_missing      |-> Len(SelectSeq(missing, IsOptional)),
   excluded_by_reason    |-> excludedByReason(missing)]

\* ---------------------------------------------------------------- actions
\* one turn of the while loop up to the start of the for loop (lines 469-483)
Dequeue ==
  /\ pc = "loop"
  /\ traversalQueue # <<>>
  /\ LET cur == Head(traversalQueue) IN
     /\ traversalQueue' = Shift(traversalQueue)
     /\ IF AlreadyProcessed(cur.docPath)
        THEN UNCHANGED <<processedPaths, maxDepthReached, docContentCache,
                         current, pc, extractLog>>
        ELSE /\ processedPaths' = processedPaths \cup {cur.docPath}
             /\ maxDepthReached' = IF cur.depth > maxDepthReached THEN cur.depth ELSE maxDepthReached
             /\ \E rd \in ReadOutcomes(cur.docPath), more \in MoreRefs(Len(graphEdges)) :
                  IF ~rd.ok
                  THEN UNCHANGED <<docContentCache, current, pc, extractLog>>
                  ELSE /\ docContentCache' = (cur.docPath :> rd.bytes) @@ docContentCache
                       /\ current' = cur
                       /\ pc' = IF more THEN "refs" ELSE "loop"
                       /\ extractLog' = Append(extractLog, cur.docPath)
  /\ UNCHANGED <<mode, optionalLimit, contextDepth, dependencyDocs, allRefs, graphEdges,
                 graphNodes, includedPaths, queuedPaths, optionalIncluded, currentBytes, report, pushLog,
                 readFailures, unfollowed, outsideBuild>>

\* whether the markdown of a dependency that is bundled but not queued (the
\* depth limit is reached, line 537) holds references of its own: the build
\* never scans it, so the vault decides
HoldsReferences(cut) == IF cut THEN BOOLEAN ELSE {FALSE}

\* a variant without the try/catch around the dependency read: a failed read
\* is not noticed and the dependency is bundled
OutcomeReadUnchecked(ref, resolved, rd) ==
  IF ~modeAllowsInclude(ref) THEN ModeSkipReason(ref)
  ELSE IF ~resolved.exists THEN "unresolved"
  ELSE IF AlreadyIncluded(resolved.resolvedPath) THEN "dedup"
  ELSE IF OverPayloadLimit(currentBytes, rd.bytes) THEN "payload_limit"
  ELSE IF ref.required THEN "required_reference"
  ELSE "context_pack_optional"

\* the decision taken for one reference (lines 495-552)
Outcome(ref, resolved, rd) ==
  IF ~modeAllowsInclude(ref) THEN ModeSkipReason(ref)
  ELSE IF ~resolved.exists THEN "unresolved"
  ELSE IF AlreadyIncluded(resolved.resolvedPath) THEN "dedup"
  ELSE IF ~rd.ok THEN "read_failed"
  ELSE IF OverPayloadLimit(currentBytes, rd.bytes) THEN "payload_limit"
  ELSE IF ref.required THEN "required_reference"
  ELSE "context_pack_optional"

\* the outcomes that mark a reference as included, an unresolved one among them
IncludeReasonsWithUnresolved == {"required_reference", "context_pack_optional", "dedup", "unresolved"}

IncludeReasons == {"required_reference", "context_pack_optional", "dedup"}

\* one turn of the for loop (lines 483-570)
EvaluateRef ==
  /\ pc = "refs"
  /\ \E ref \in ShareRef, more \in MoreRefs(Len(graphEdges) + 1) :
     LET resolved == resolveLocalNoteTarget(current.docPath, ref.raw_target)
         target == resolved.resolvedPath
         depth1 == current.depth + 1
         nodes1 == IF resolved.exists THEN addGraphNode(graphNodes, target, depth1, FALSE)
                   ELSE graphNodes
     IN \E rd \in (IF resolved.exists THEN ReadOutcomes(target) ELSE {[ok |-> FALSE, bytes |-> 0]}) :
        LET out == Outcome(ref, resolved, rd)
            reads == out \in {"payload_limit", "required_reference", "context_pack_optional"}
            bundles == out \in {"required_reference", "context_pack_optional"}
            queues == bundles /\ shouldTraverse(current.depth) /\ ~AlreadyQueued(target)
            attempted == modeAllowsInclude(ref) /\ resolved.exists /\ ~AlreadyIncluded(target)
            cut == bundles /\ ~shouldTraverse(current.depth) /\ ~AlreadyQueued(target)
        IN \E linked \in HoldsReferences(cut) :
        /\ pc' = IF more THEN "refs" ELSE "loop"
        /\ readFailures' = IF attempted /\ ~rd.ok THEN readFailures \cup {Len(graphEdges) + 1}
                           ELSE readFailures
        /\ unfollowed' = IF linked THEN unfollowed \cup {target} ELSE unfollowed
        /\ docContentCache' = IF reads THEN (target :> rd.bytes) @@ docContentCache
                              ELSE docContentCache
        /\ currentBytes' = IF bundles THEN currentBytes + rd.bytes ELSE currentBytes
        /\ includedPaths' = IF bundles THEN includedPaths \cup {target} ELSE includedPaths
        /\ optionalIncluded' = IF bundles /\ ~ref.required THEN optionalIncluded + 1
                               ELSE optionalIncluded
        /\ dependencyDocs' =
             IF bundles
             THEN Append(dependencyDocs,
                         [vault_path |-> target, bytes |-> rd.bytes, depth |-> depth1,
                          required |-> ref.required, parent_path |-> current.docPath])
             ELSE dependencyDocs
        /\ graphNodes' = IF bundles THEN addGraphNode(nodes1, target, depth1, TRUE) ELSE nodes1
        /\ traversalQueue' = IF queues THEN push(traversalQueue, [docPath |-> target, depth |-> depth1])
                             ELSE traversalQueue
        /\ queuedPaths' = IF queues THEN queuedPaths \cup {target} ELSE queuedPaths
        /\ pushLog' = IF queues THEN Append(pushLog, target) ELSE pushLog
        /\ allRefs' =
             Append(allRefs,
                    [raw_target |-> ref.raw_target, required |-> ref.required,
                     source_path |-> current.docPath,
                     exists |-> resolved.exists,
                     included |-> out \in IncludeReasons])
        /\ graphEdges' =
             Append(graphEdges,
                    [source_path |-> current.docPath, source_depth |-> current.depth,
                     raw_target |-> ref.raw_target, required |-> ref.required,
                     target_path |-> target,
                     target_depth |-> IF resolved.exists THEN depth1 ELSE NoDepth,
                     exists |-> resolved.exists,
                     included |-> out \in IncludeReasons,
                     include_reason |-> IF out \in IncludeReasons THEN out ELSE NoReason,
                     skip_reason |-> IF out \in IncludeReasons THEN NoReason ELSE out])
  /\ UNCHANGED <<mode, optionalLimit, contextDepth, processedPaths,
                 maxDepthReached, current, report, extractLog, outsideBuild>>

\* the queue is empty: the report is assembled and returned (lines 573-612)
Finish ==
  /\ pc = "loop"
  /\ traversalQueue = <<>>
  /\ report' = [built |-> TRUE,
                max_depth_requested |-> contextDepth,
                max_depth_reached |-> maxDepthReached,
                nodes |-> SortNodes(graphNodes),
                edges |-> graphEdges,
                references |-> allRefs,
                missing_references |-> missingReferences(graphEdges),
                summary |-> Summary(graphEdges),
                dependencies |-> dependencyDocs,
                dependency_count |-> Len(dependencyDocs)]
  /\ pc' = "done"
  /\ UNCHANGED <<mode, optionalLimit, contextDepth, docContentCache,
                 dependencyDocs, allRefs, graphEdges, graphNodes, includedPaths,
                 processedPaths, queuedPaths, traversalQueue, optionalIncluded,
                 currentBytes, maxDepthReached, current, pushLog, extractLog,
                 readFailures, unfollowed, outsideBuild>>

Next == Dequeue \/ EvaluateRef \/ Finish

Spec == Init /\ [][Next]_vars

\* the event loop runs the build to its end: every step that can be taken is taken
FairSpec == Spec /\ WF_vars(Next)

\* ============================================================ share_document
\* The handler of the share_document tool (handleKoiApiTool, lines 1150-1217).
\* A string argument is kept as its content in trimmed lower case together
\* with what trim() and toLowerCase() would change: surrounding white space
\* and upper-case letters.  A number argument is kept in halves, so that 5
\* stands for 2.5, with a flag for NaN and the infinities.
RECIPIENT_TYPES == {"peer", "commons"}
DEFAULT_OPTIONAL_LIMIT == 12
DEFAULT_CONTEXT_DEPTH_CONTEXT_PACK == 2
DEFAULT_CONTEXT_DEPTH_OTHER == 1

Str(w) == [given |-> TRUE, text |-> w, padded |-> FALSE, upper |-> FALSE]
NoStr == [given |-> FALSE, text |-> "", padded |-> FALSE, upper |-> FALSE]
Num(n) == [given |-> TRUE, finite |-> TRUE, halves |-> 2 * n]
NoNum == [given |-> FALSE, finite |-> FALSE, halves |-> 0]
NaN == [given |-> TRUE, finite |-> FALSE, halves |-> 0]

trim(str) == [str EXCEPT !.padded = FALSE]
toLowerCase(str) == [str EXCEPT !.upper = FALSE]
\* raw || dflt for a string: undefined and '' are falsy
OrElse(raw, dflt) == IF ~raw.given \/ raw = Str("") THEN Str(dflt) ELSE raw
includes(list, str) == \E w \in list : str = Str(w)

\* the strings a caller may pass: nothing, '', blanks, and words in any
\* spelling
Spellings(words) ==
  {NoStr, [given |-> TRUE, text |-> "", padded |-> TRUE, upper |-> FALSE]}
    \cup {[given |-> TRUE, text |-> w, padded |-> pd, upper |-> up] :
            w \in words \cup {""}, pd \in BOOLEAN, up \in BOOLEAN}
RecipientTypeInputs == {r \in Spellings(RECIPIENT_TYPES \cup {"everyone"}) : r.text = "" => ~r.upper}
ModeInputs == {m \in Spellings(SHARE_MODES \cup {"everything"}) : m.text = "" => ~m.upper}
\* the numbers a caller may pass: nothing, NaN, the integers around the
\* allowed range, and a fraction inside it
ContextDepthInputs ==
  {NoNum, NaN, [given |-> TRUE, finite |-> TRUE, halves |-> 5]}
    \cup {Num(n) : n \in 0..(MAX_CONTEXT_DEPTH + 1)}
OptionalLimitInputs ==
  {NoNum, NaN, Num(0 - 1), Num(0), Num(3), [given |-> TRUE, finite |-> TRUE, halves |-> 5]}

Thrown(msg) == [ok |-> FALSE, value |-> 0, message |-> msg]
Returned(v) == [ok |-> TRUE, value |-> v, message |-> ""]

\* a variant that accepts every depth that is an integer
parseContextDepthNoRange(raw, shareMode) ==
  IF ~raw.given
  THEN Returned(IF shareMode = "context_pack" THEN DEFAULT_CONTEXT_DEPTH_CONTEXT_PACK
                ELSE DEFAULT_CONTEXT_DEPTH_OTHER)
  ELSE IF ~raw.finite \/ raw.halves % 2 # 0
       THEN Thrown("context_depth must be an integer between 1 and 4")
       ELSE Returned(raw.halves \div 2)

parseContextDepth(raw, shareMode) ==
  IF ~raw.given
  THEN Returned(IF shareMode = "context_pack" THEN DEFAULT_CONTEXT_DEPTH_CONTEXT_PACK
                ELSE DEFAULT_CONTEXT_DEPTH_OTHER)
  ELSE IF ~raw.finite \/ raw.halves % 2 # 0
       THEN Thrown("context_depth must be an integer between 1 and 4")
       ELSE IF raw.halves \div 2 < 1 \/ raw.halves \div 2 > MAX_CONTEXT_DEPTH
            THEN Thrown("context_depth must be between 1 and 4")
            ELSE Returned(raw.halves \div 2)

parseRecipientType(raw) ==
  LET value == toLowerCase(trim(OrElse(raw, "peer")))
  IN IF ~includes(RECIPIENT_TYPES, value)
     THEN Thrown("recipient_type must be one of: peer, commons")
     ELSE Returned(value.text)

\* Number.isFinite(raw) ? Math.max(0, Number(raw)) : DEFAULT_OPTIONAL_LIMIT,
\* in halves
parseOptionalLimit(raw) ==
  IF raw.given /\ raw.finite
  THEN (IF raw.halves > 0 THEN raw.halves ELSE 0)
  ELSE 2 * DEFAULT_OPTIONAL_LIMIT

ErrorResult(text) == [returned |-> TRUE, isError |-> TRUE, text |-> text]

\* ==================================================================== paths
\* A file name is a stem and an extension.  A path string is its number of
\* leading slashes and the names between its slashes; an absolute path that
\* has been resolved is the sequence of its names from the filesystem root.
Name(stem, ext) == [stem |-> stem, ext |-> ext]
DotDot == Name("..", "")
Dot == Name(".", "")
Path(lead, segs) == [lead |-> lead, segs |-> segs]
NoRelPath == Path(0, <<>>)

\* process.env.VAULT_PATH (lines 59-63)
getVaultPath == <<Name("srv", ""), Name("vault", "")>>

\* '.' and '..' are worked off from left to right; above the filesystem root
\* '..' stays at the root, in a relative path leading '..' are kept
RECURSIVE normalizeSegments(_, _, _)
normalizeSegments(done, segs, absolute) ==
  IF segs = <<>> THEN done
  ELSE normalizeSegments(
         IF Head(segs) = Dot THEN done
         ELSE IF Head(segs) # DotDot THEN Append(done, Head(segs))
         ELSE IF done # <<>> /\ done[Len(done)] # DotDot THEN SubSeq(done, 1, Len(done) - 1)
         ELSE IF absolute THEN done
         ELSE Append(done, DotDot),
         Tail(segs), absolute)

\* path.normalize, path.join, path.dirname, path.extname, path.resolve (POSIX)
pathNormalize(p) == Path(IF p.lead > 0 THEN 1 ELSE 0, normalizeSegments(<<>>, p.segs, p.lead > 0))
pathJoin(dir, p) == Path(dir.lead, dir.segs \o p.segs)
pathDirname(p) == Path(p.lead, SubSeq(p.segs, 1, Len(p.segs) - 1))
pathExtname(p) == IF p.segs = <<>> THEN "" ELSE p.segs[Len(p.segs)].ext
pathResolve(root, p) ==
  normalizeSegments(<<>>, IF p.lead > 0 THEN p.segs ELSE root \o p.segs, TRUE)

\* resolved.startsWith(dir + path.sep)
startsWithDir(resolved, dir) ==
  Len(resolved) > Len(dir) /\ \A i \in 1..Len(dir) : resolved[i] = dir[i]

\* a guard that looks at the spelling only: it refuses absolute paths and
\* paths that begin with '..'
safeVaultPathBySpelling(relativePath) ==
  IF relativePath.lead > 0 \/ (relativePath.segs # <<>> /\ Head(relativePath.segs) = DotDot)
  THEN Thrown("Path traversal rejected")
  ELSE Returned(pathResolve(getVaultPath, relativePath))

\* safeVaultPath (lines 65-73)
safeVaultPath(relativePath) ==
  LET vaultRoot == getVaultPath
      resolved == pathResolve(vaultRoot, relativePath)
      normalizedVault == pathResolve(vaultRoot, NoRelPath)
  IN IF ~startsWithDir(resolved, normalizedVault) /\ resolved # normalizedVault
     THEN Thrown("Path traversal rejected")
     ELSE Returned(resolved)

\* sanitizeLocalLinkTarget (lines 240-262).  A raw target is the path it
\* spells and the way it is spelt: plainly, between angle brackets,
\* percent-encoded, behind a URL scheme, as an anchor only, or blank.
sanitizeLocalLinkTarget(raw) ==
  IF raw.form \in {"url", "anchor", "blank"} \/ (raw.lead = 0 /\ raw.segs = <<>>)
  THEN [given |-> FALSE, lead |-> 0, segs |-> <<>>]
  ELSE [given |-> TRUE, lead |-> raw.lead, segs |-> raw.segs]

lowerStem(stem) == IF stem = "B" THEN "b" ELSE stem

\* the directories there are: the vault root, what is above it, and what is
\* above a file
Dirs(files) ==
  {SubSeq(getVaultPath, 1, n) : n \in 0..Len(getVaultPath)}
    \cup UNION {{SubSeq(f, 1, n) : n \in 0..(Len(f) - 1)} : f \in files}

\* the directories the walk of buildVaultMarkdownBasenameIndex reads (lines
\* 268-283): the vault root and what is below it
walked(dir) == dir = getVaultPath \/ startsWithDir(dir, getVaultPath)

\* the vault-relative path of a file inside the vault
relPath(file) == Path(0, SubSeq(file, Len(getVaultPath) + 1, Len(file)))

\* one bucket of buildVaultMarkdownBasenameIndex (lines 264-297): the
\* markdown files under the vault root whose lower-cased basename is `key`
bucketOf(files, key) ==
  {relPath(f) : f \in {g \in files : /\ startsWithDir(g, getVaultPath)
                                     /\ g[Len(g)].ext = "md"
                                     /\ Name(lowerStem(g[Len(g)].stem), "md") = key}}

\* the orders in which the walk may have met the files of a bucket: readdir
\* returns the entries of a directory in no order one can rely on
Orderings(S) ==
  {f \in [1..Cardinality(S) -> S] : \A i, j \in 1..Cardinality(S) : f[i] = f[j] => i = j}

\* `${relativeBase}.md`
appendMd(p) ==
  Path(p.lead, [p.segs EXCEPT ![Len(p.segs)] = Name(p.segs[Len(p.segs)].stem, "md")])

\* sanitized.includes('/')
includesSlash(p) == p.lead > 0 \/ Len(p.segs) > 1

\* relativeBase (lines 308-310)
relativeBase(sourceDocPath, sanitized) ==
  IF sanitized.lead > 0
  THEN Path(sanitized.lead - 1, sanitized.segs)
  ELSE pathNormalize(pathJoin(pathDirname(sourceDocPath), Path(0, sanitized.segs)))

\* the first candidate (lines 312-317)
relativeCandidate(sourceDocPath, sanitized) ==
  IF pathExtname(sanitized) # "" THEN relativeBase(sourceDocPath, sanitized)
  ELSE appendMd(relativeBase(sourceDocPath, sanitized))

\* the key under which the index is asked (line 321)
basenameKey(sanitized) == Name(lowerStem(sanitized.segs[1].stem), "md")

\* whether the index is asked at all (line 320)
asksIndex(sanitized) == ~includesSlash(sanitized) /\ pathExtname(sanitized) = ""

RECURSIVE withoutRepeats(_, _)
withoutRepeats(seen, list) ==
  IF list = <<>> THEN seen
  ELSE withoutRepeats(IF \E i \in 1..Len(seen) : seen[i] = Head(list) THEN seen
                      ELSE Append(seen, Head(list)),
                      Tail(list))

\* a candidate list in which the entries of the index come first
candidateSetIndexFirst(sourceDocPath, sanitized, bucket) ==
  withoutRepeats(<<>>,
                 (IF asksIndex(sanitized) THEN bucket ELSE <<>>)
                   \o <<relativeCandidate(sourceDocPath, sanitized)>>)

\* candidateSet in insertion order (lines 312-325); `bucket` is what
\* basenameIndex.get(key) holds
candidateSet(sourceDocPath, sanitized, bucket) ==
  withoutRepeats(<<>>,
                 <<relativeCandidate(sourceDocPath, sanitized)>>
                   \o (IF asksIndex(sanitized) THEN bucket ELSE <<>>))

\* the loop over the candidates (lines 327-341): a candidate that
\* safeVaultPath refuses is passed over, the others are tried with fs.access
\* until one exists; `accessed` collects the paths fs.access was called on
RECURSIVE tryCandidates(_, _, _)
tryCandidates(files, candidates, accessed) ==
  IF candidates = <<>>
  THEN [exists |-> FALSE, resolvedPath |-> NoRelPath, accessed |-> accessed]
  ELSE LET absolute == safeVaultPath(Head(candidates)) IN
       IF ~absolute.ok THEN tryCandidates(files, Tail(candidates), accessed)
       ELSE IF absolute.value \in files \cup Dirs(files)
            THEN [exists |-> TRUE, resolvedPath |-> Head(candidates),
                  accessed |-> accessed \cup {absolute.value}]
            ELSE tryCandidates(files, Tail(candidates), accessed \cup {absolute.value})

\* resolveLocalNoteTarget (lines 299-344) on the files of a disk
resolveOnDisk(files, sourceDocPath, rawTarget, bucket) ==
  LET sanitized == sanitizeLocalLinkTarget(rawTarget) IN
  IF ~sanitized.given THEN [exists |-> FALSE, resolvedPath |-> NoRelPath, accessed |-> {}]
  ELSE tryCandidates(files, candidateSet(sourceDocPath, sanitized, bucket), {})

\* no build is under way
BuildIdle ==
  /\ mode = "root_only"
  /\ optionalLimit = 0
  /\ contextDepth = 1
  /\ docContentCache = <<>>
  /\ dependencyDocs = <<>>
  /\ allRefs = <<>>
  /\ graphEdges = <<>>
  /\ graphNodes = <<>>
  /\ includedPaths = {}
  /\ processedPaths = {}
  /\ queuedPaths = {}
  /\ traversalQueue = <<>>
  /\ optionalIncluded = 0
  /\ currentBytes = 0
  /\ maxDepthReached = 0
  /\ current = [docPath |-> NoPath, depth |-> 0]
  /\ pc = "idle"
  /\ report = [built |-> FALSE]
  /\ pushLog = <<>>
  /\ extractLog = <<>>
  /\ readFailures = {}
  /\ unfollowed = {}

\* the handler is entered with the caller's arguments (lines 1150-1154)
\* the documents share_document is asked to share: one in the vault, one
\* whose path leads outside the vault root
DocumentPaths ==
  {Path(0, <<Name("a", "md")>>),
   Path(0, <<DotDot, DotDot, DotDot, Name("etc", ""), Name("passwd", "")>>)}

HandlerInit ==
  /\ args \in [document_path : DocumentPaths, recipient : {"did:koi:peer"},
               message : {"undefined"},
               recipient_type : RecipientTypeInputs, mode : ModeInputs,
               optional_limit : OptionalLimitInputs, context_depth : ContextDepthInputs]
  /\ handler = [pc |-> "recipient_type", recipientType |-> "peer", shareMode |-> "",
                optionalLimit |-> 0, contextDepth |-> 1, contents |-> "undefined",
                references |-> "undefined"]
  /\ result = [returned |-> FALSE]
  /\ builds = <<>>
  /\ posts = <<>>
  /\ BuildIdle
  /\ ResolverIdle
  /\ NormalizeIdle
  /\ VaultIdle

\* lines 1154-1165
CheckRecipientType ==
  /\ handler.pc = "recipient_type"
  /\ LET parsed == parseRecipientType(args.recipient_type) IN
     IF parsed.ok
     THEN /\ handler' = [handler EXCEPT !.pc = "mode", !.recipientType = parsed.value]
          /\ UNCHANGED result
     ELSE /\ handler' = [handler EXCEPT !.pc = "returned"]
          /\ result' = ErrorResult(<<parsed.message>>)
  /\ UNCHANGED <<args, builds, posts, outsideHandler>>

\* lines 1166-1180: the mode, then the optional limit
CheckMode ==
  /\ handler.pc = "mode"
  /\ LET modeInput == toLowerCase(trim(OrElse(args.mode, "root_plus_required"))) IN
     IF includes(SHARE_MODES, modeInput)
     THEN /\ handler' = [handler EXCEPT !.pc = "context_depth", !.shareMode = modeInput.text,
                                        !.optionalLimit = parseOptionalLimit(args.optional_limit)]
          /\ UNCHANGED result
     ELSE /\ handler' = [handler EXCEPT !.pc = "returned"]
          /\ result' = ErrorResult(<<"Invalid mode '", modeInput.text,
                                    "'. Valid modes: root_only, root_plus_required, context_pack">>)
  /\ UNCHANGED <<args, builds, posts, outsideHandler>>

\* lines 1181-1192
CheckContextDepth ==
  /\ handler.pc = "context_depth"
  /\ LET parsed == parseContextDepth(args.context_depth, handler.shareMode) IN
     IF parsed.ok
     THEN /\ handler' = [handler EXCEPT !.pc = "build", !.contextDepth = parsed.value]
          /\ UNCHANGED result
     ELSE /\ handler' = [handler EXCEPT !.pc = "returned"]
          /\ result' = ErrorResult(<<parsed.message>>)
  /\ UNCHANGED <<args, builds, posts, outsideHandler>>

\* what the awaited buildSharePayload call does: it returns a payload, or it
\* throws (the root document cannot be read, line 414)
BuildOutcomes == {"built", "threw"}

\* the outcomes for one document: safeVaultPath throws at line 413 for a
\* path that leads outside the vault root
BuildOutcomesFor(docPath) == IF safeVaultPath(docPath).ok THEN BuildOutcomes ELSE {"threw"}

\* lines 1194-1203: the build is called and a failure is swallowed
Build ==
  /\ handler.pc = "build"
  /\ builds' = Append(builds, [docPath |-> args.document_path,
                               mode |-> handler.shareMode,
                               optionalLimit |-> handler.optionalLimit,
                               contextDepth |-> handler.contextDepth])
  /\ \E outcome \in BuildOutcomesFor(args.document_path) :
       handler' = [handler EXCEPT !.pc = "post",
                                  !.contents = IF outcome = "built" THEN "contents" ELSE "undefined",
                                  !.references = IF outcome = "built" THEN "references"
                                                 ELSE "undefined"]
  /\ UNCHANGED <<args, result, posts, outsideHandler>>

\* what the awaited client.post does: the backend answers, or the request
\* throws and the catch of handleKoiApiTool turns it into an error result
PostOutcomes == {"answered", "threw"}

\* `orn:obsidian.note:${docPath}` (line 1205)
noteRid(docPath) == [scheme |-> "orn:obsidian.note:", path |-> docPath]

\* a request body that carries the mode and the depth only with contents
shareRequestBare(a, h) ==
  [document_rid |-> noteRid(a.document_path),
   recipient |-> a.recipient,
   recipient_type |-> h.recipientType,
   message |-> a.message,
   share_mode |-> IF h.contents = "undefined" THEN "undefined" ELSE h.shareMode,
   context_depth |-> IF h.contents = "undefined" THEN 0 ELSE h.contextDepth,
   references |-> h.references,
   contents |-> h.contents]

\* the body of the request to /koi-net/share (lines 1206-1215)
shareRequest(a, h) ==
  [document_rid |-> noteRid(a.document_path),
   recipient |-> a.recipient,
   recipient_type |-> h.recipientType,
   message |-> a.message,
   share_mode |-> h.shareMode,
   context_depth |-> h.contextDepth,
   references |-> h.references,
   contents |-> h.contents]

\* lines 1205-1216 and 1262-1268
Post ==
  /\ handler.pc = "post"
  /\ posts' = Append(posts, shareRequest(args, handler))
  /\ \E outcome \in PostOutcomes :
       result' = IF outcome = "answered"
                 THEN [returned |-> TRUE, isError |-> FALSE, text |-> <<"data">>]
                 ELSE ErrorResult(<<"KOI API error (share_document): ", "message">>)
  /\ handler' = [handler EXCEPT !.pc = "returned"]
  /\ UNCHANGED <<args, builds, outsideHandler>>

HandlerNext == CheckRecipientType \/ CheckMode \/ CheckContextDepth \/ Build \/ Post

HandlerSpec == HandlerInit /\ [][HandlerNext]_vars

\* ============================================================ the vault tools
\* The vault tools of handleKoiApiTool (lines 1026-1061), the root read of
\* buildSharePayload (lines 412-415) and the path side of one reference of
\* its for loop (lines 484-492 and 513, with getDocContent, lines 420-427).
\* One call runs at a time; fsOps holds the filesystem operations of the
\* call that has just run.
aMd == Name("a", "md")
bMd == Name("b", "md")
cMd == Name("c", "md")
nMd == Name("n", "md")
sub == Name("sub", "")
secretMd == Name("secret", "md")

\* the markdown files the vault may hold at the start, and the files outside
InsideFiles ==
  {getVaultPath \o <<aMd>>, getVaultPath \o <<bMd>>, getVaultPath \o <<sub, bMd>>,
   getVaultPath \o <<sub, cMd>>, getVaultPath \o <<Name("deep", ""), Name("B", "md")>>}
OutsideFiles ==
  {<<Name("srv", ""), secretMd>>, <<Name("etc", ""), Name("passwd", "")>>}

\* the paths the vault tools and share_document are called with
ToolPaths ==
  {Path(0, <<aMd>>), Path(0, <<sub, nMd>>), Path(0, <<sub>>), Path(0, <<>>),
   Path(0, <<sub, DotDot, bMd>>), Path(0, <<DotDot, Name("vault", ""), aMd>>),
   Path(0, <<DotDot, DotDot, DotDot, Name("etc", ""), Name("passwd", "")>>),
   Path(0, <<sub, DotDot, DotDot, secretMd>>),
   Path(1, <<Name("etc", ""), Name("passwd", "")>>)}

\* the documents whose references are resolved
SourceDocs == {Path(0, <<aMd>>), Path(0, <<sub, cMd>>)}

Raw(form, lead, segs) == [form |-> form, lead |-> lead, segs |-> segs]

\* the raw targets of the references
RawTargets ==
  {Raw("plain", 0, <<Name("b", "")>>), Raw("plain", 0, <<Name("B", "")>>),
   Raw("plain", 0, <<bMd>>), Raw("plain", 0, <<DotDot, Name("b", "")>>),
   Raw("plain", 0, <<sub, Name("b", "")>>),
   Raw("plain", 1, <<Name("b", "")>>),
   Raw("plain", 1, <<sub, DotDot, DotDot, secretMd>>),
   Raw("plain", 2, <<Name("srv", ""), secretMd>>),
   Raw("plain", 0, <<DotDot, DotDot, Name("secret", "")>>),
   Raw("encoded", 0, <<DotDot, secretMd>>),
   Raw("plain", 0, <<Name("secret", "")>>),
   Raw("angle", 0, <<sub, cMd>>),
   Raw("url", 0, <<bMd>>)}

VaultInit ==
  /\ \E inside \in SUBSET InsideFiles : vaultFiles = inside \cup OutsideFiles
  /\ vaultCall = [op |-> "none"]
  /\ vaultAnswer = [returned |-> FALSE]
  /\ fsOps = {}
  /\ BuildIdle
  /\ HandlerIdle
  /\ ResolverIdle
  /\ NormalizeIdle

FsOp(op, path) == [op |-> op, path |-> path]

ToolError(text) == [returned |-> TRUE, isError |-> TRUE, text |-> text]
ToolResult(text) == [returned |-> TRUE, isError |-> FALSE, text |-> text]

\* vault_read_note (lines 1026-1035)
VaultReadNote ==
  /\ vaultCall.op = "none"
  /\ \E notePath \in ToolPaths :
       LET fullPath == safeVaultPath(notePath) IN
       /\ vaultCall' = [op |-> "vault_read_note", path |-> notePath]
       /\ IF ~fullPath.ok
          THEN /\ fsOps' = {}
               /\ vaultAnswer' = ToolError(fullPath.message)
          ELSE /\ fsOps' = {FsOp("readFile", fullPath.value)}
               /\ vaultAnswer' = IF fullPath.value \in vaultFiles THEN ToolResult("content")
                                 ELSE ToolError("readFile failed")
  /\ UNCHANGED <<vaultFiles, outsideVault>>

\* the directories fs.mkdir(dir, { recursive: true }) has to make
missingDirs(files, dir) == {SubSeq(dir, 1, n) : n \in 0..Len(dir)} \ Dirs(files)

\* vault_write_note (lines 1037-1049)
VaultWriteNote ==
  /\ vaultCall.op = "none"
  /\ \E notePath \in ToolPaths :
       LET fullPath == safeVaultPath(notePath)
           dir == SubSeq(fullPath.value, 1, Len(fullPath.value) - 1)
           made == {FsOp("mkdir", d) : d \in missingDirs(vaultFiles, dir)}
       IN
       /\ vaultCall' = [op |-> "vault_write_note", path |-> notePath]
       /\ IF ~fullPath.ok
          THEN /\ fsOps' = {}
               /\ vaultAnswer' = ToolError(fullPath.message)
               /\ UNCHANGED vaultFiles
          ELSE IF missingDirs(vaultFiles, dir) \cap vaultFiles # {}
          THEN /\ fsOps' = {FsOp("mkdir", dir)}
               /\ vaultAnswer' = ToolError("mkdir failed")
               /\ UNCHANGED vaultFiles
          ELSE IF fullPath.value \in Dirs(vaultFiles)
          THEN /\ fsOps' = made \cup {FsOp("writeFile", fullPath.value)}
               /\ vaultAnswer' = ToolError("writeFile failed")
               /\ UNCHANGED vaultFiles
          ELSE /\ fsOps' = made \cup {FsOp("writeFile", fullPath.value)}
               /\ vaultAnswer' = ToolResult("Written")
               /\ vaultFiles' = vaultFiles \cup {fullPath.value}
  /\ UNCHANGED outsideVault

\* vault_list_notes (lines 1051-1061)
VaultListNotes ==
  /\ vaultCall.op = "none"
  /\ \E folder \in ToolPaths :
       LET fullPath == safeVaultPath(folder) IN
       /\ vaultCall' = [op |-> "vault_list_notes", path |-> folder]
       /\ IF ~fullPath.ok
          THEN /\ fsOps' = {}
               /\ vaultAnswer' = ToolError(fullPath.message)
          ELSE /\ fsOps' = {FsOp("readdir", fullPath.value)}
               /\ vaultAnswer' = IF fullPath.value \in Dirs(vaultFiles) THEN ToolResult("listing")
                                 ELSE ToolError("readdir failed")
  /\ UNCHANGED <<vaultFiles, outsideVault>>

\* the start of buildSharePayload (lines 412-415): the root document is
\* guarded and read, then the basename index walks the vault
ReadShareRoot ==
  /\ vaultCall.op = "none"
  /\ \E docPath \in ToolPaths :
       LET rootFullPath == safeVaultPath(docPath) IN
       /\ vaultCall' = [op |-> "share_root", path |-> docPath]
       /\ IF ~rootFullPath.ok
          THEN /\ fsOps' = {}
               /\ vaultAnswer' = [returned |-> TRUE, threw |-> TRUE]
          ELSE IF rootFullPath.value \notin vaultFiles
          THEN /\ fsOps' = {FsOp("readFile", rootFullPath.value)}
               /\ vaultAnswer' = [returned |-> TRUE, threw |-> TRUE]
          ELSE /\ fsOps' = {FsOp("readFile", rootFullPath.value)}
                              \cup {FsOp("readdir", d) :
                                      d \in {e \in Dirs(vaultFiles) : walked(e)}}
               /\ vaultAnswer' = [returned |-> TRUE, threw |-> FALSE]
  /\ UNCHANGED <<vaultFiles, outsideVault>>

\* resolvedPath.toLowerCase().endsWith('.md') (line 485)
endsWithMd(p) == p.segs # <<>> /\ p.segs[Len(p.segs)].ext = "md"

\* one reference of a document being scanned: it is resolved (lines 484-492)
\* and, when it exists, its document is read for the bundle (getDocContent,
\* lines 420-427 and 513)
EvaluateLink ==
  /\ vaultCall.op = "none"
  /\ \E sourceDocPath \in SourceDocs, rawTarget \in RawTargets :
       /\ pathResolve(getVaultPath, sourceDocPath) \in vaultFiles
       /\ LET sanitized == sanitizeLocalLinkTarget(rawTarget) IN
          \E bucket \in Orderings(IF sanitized.given /\ asksIndex(sanitized)
                                  THEN bucketOf(vaultFiles, basenameKey(sanitized))
                                  ELSE {}) :
            LET resolved == resolveOnDisk(vaultFiles, sourceDocPath, rawTarget, bucket)
                exists == resolved.exists /\ endsWithMd(resolved.resolvedPath)
                abs == safeVaultPath(resolved.resolvedPath)
                read == exists /\ abs.ok
            IN /\ vaultCall' = [op |-> "reference", source |-> sourceDocPath,
                                raw_target |-> rawTarget, bucket |-> bucket]
               /\ fsOps' = {FsOp("access", a) : a \in resolved.accessed}
                             \cup (IF read THEN {FsOp("readFile", abs.value)} ELSE {})
               /\ vaultAnswer' = [returned |-> TRUE,
                                  resolved |-> [exists |-> resolved.exists,
                                                resolvedPath |-> resolved.resolvedPath],
                                  exists |-> exists,
                                  resolved_path |-> IF exists THEN resolved.resolvedPath
                                                    ELSE NoRelPath,
                                  bundled |-> read /\ abs.value \in vaultFiles]
  /\ UNCHANGED <<vaultFiles, outsideVault>>

\* the caller takes the answer
VaultReturn ==
  /\ vaultCall.op # "none"
  /\ vaultCall' = [op |-> "none"]
  /\ vaultAnswer' = [returned |-> FALSE]
  /\ fsOps' = {}
  /\ UNCHANGED <<vaultFiles, outsideVault>>

VaultNext ==
  VaultReadNote \/ VaultWriteNote \/ VaultListNotes \/ ReadShareRoot \/ EvaluateLink \/ VaultReturn

VaultSpec == VaultInit /\ [][VaultNext]_vars

\* ==================================================== normalizeForComparison
\* Strings of the entity resolver (src/src/entity-resolver.ts) are sequences
\* of one-character strings.
UpperToLower ==
  ("A" :> "a") @@ ("B" :> "b") @@ ("C" :> "c") @@ ("D" :> "d") @@ ("E" :> "e")
LowerLetters == {"a", "b", "c", "d", "e", "f", "g", "v", "w", "x", "y", "z"}
\* \s
IsSpace(c) == c \in {" ", "\t"}
\* \w
IsWord(c) == c \in LowerLetters \cup DOMAIN UpperToLower \cup {"_"}

toLowerCaseChars(str) ==
  [i \in 1..Len(str) |-> IF str[i] \in DOMAIN UpperToLower THEN UpperToLower[str[i]] ELSE str[i]]

RECURSIVE trimStart(_)
trimStart(str) ==
  IF str # <<>> /\ IsSpace(Head(str)) THEN trimStart(Tail(str)) ELSE str

RECURSIVE trimEnd(_)
trimEnd(str) ==
  IF str # <<>> /\ IsSpace(str[Len(str)]) THEN trimEnd(SubSeq(str, 1, Len(str) - 1)) ELSE str

trimChars(str) == trimEnd(trimStart(str))

\* str.replace(/[class]/g, by)
replaceEach(str, class, by) ==
  [i \in 1..Len(str) |-> IF str[i] \in class THEN by ELSE str[i]]

\* str.replace(/\s+/g, ' ')
RECURSIVE collapseSpaces(_)
collapseSpaces(str) ==
  IF str = <<>> THEN <<>>
  ELSE IF IsSpace(Head(str)) THEN <<" ">> \o collapseSpaces(trimStart(Tail(str)))
  ELSE <<Head(str)>> \o collapseSpaces(Tail(str))

\* [\w\s'-]
IsKept(c) == IsWord(c) \/ IsSpace(c) \/ c \in {"'", "-"}

\* str.replace(/[^\w\s'-]/g, '')
stripOthers(str) == SelectSeq(str, IsKept)

\* lines 119-127, in the order of the chain: the white space is trimmed and
\* collapsed before the other characters are removed
normalizeForComparison(str) ==
  stripOthers(
    collapseSpaces(
      replaceEach(
        replaceEach(trimChars(toLowerCaseChars(str)), {"'"}, "'"),
        {"\""}, "\"")))

\* the strings normalizeForComparison is studied on: every string of at most
\* MaxStrLen characters over a letter, a capital, a blank, a hyphen and a
\* punctuation mark
Alphabet == {"a", "B", " ", "-", "."}
Strings == UNION {[1..n -> Alphabet] : n \in 0..MaxStrLen}

NormalizeInit ==
  /\ input \in Strings
  /\ passes = <<>>
  /\ BuildIdle
  /\ HandlerIdle
  /\ ResolverIdle
  /\ VaultIdle

\* one more application of normalizeForComparison, to the input or to the
\* result of the pass before
NormalizePass ==
  /\ Len(passes) < MaxPasses
  /\ passes' = Append(passes, normalizeForComparison(IF passes = <<>> THEN input
                                                     ELSE passes[Len(passes)]))
  /\ UNCHANGED <<input, outsideNormalize>>

NormalizeNext == NormalizePass

NormalizeSpec == NormalizeInit /\ [][NormalizeNext]_vars

\* ============================================================ EntityResolver
\* Scores are kept exactly, as whole multiples of 1/ScoreUnit: every Jaro-
\* Winkler score of two strings of at most six characters is such a multiple,
\* and so is every hundredth.  (The code computes them in floating point.)
ScoreUnit == 60 * 60 * 60 * 60
Hundredths(n) == n * (ScoreUnit \div 100)

Larger(a, b) == IF a > b THEN a ELSE b
Smaller(a, b) == IF a < b THEN a ELSE b

\* the first loop of jaroSimilarity (lines 65-77), from position i of s1 on;
\* m1 and m2 are the matched positions of s1 and s2
RECURSIVE findMatches(_, _, _, _, _)
findMatches(s1, s2, i, m1, m2) ==
  IF i > Len(s1) THEN [s1Matches |-> m1, s2Matches |-> m2]
  ELSE LET matchDistance == (Larger(Len(s1), Len(s2)) \div 2) - 1
           start == Larger(1, i - matchDistance)
           end == Smaller(i + matchDistance, Len(s2))
           free == {j \in start..end : j \notin m2 /\ s1[i] = s2[j]}
       IN IF free = {} THEN findMatches(s1, s2, i + 1, m1, m2)
          ELSE LET j == CHOOSE x \in free : \A y \in free : x <= y
               IN findMatches(s1, s2, i + 1, m1 \cup {i}, m2 \cup {j})

\* the second loop (lines 82-88): the k-th matched character of s1 is compared
\* with the k-th matched character of s2
countTranspositions(s1, s2, m1, m2) ==
  Cardinality({i \in m1 :
     LET k == Cardinality({x \in m1 : x < i})
         j == CHOOSE y \in m2 : Cardinality({x \in m2 : x < y}) = k
     IN s1[i] # s2[j]})

\* lines 53-94; the result is the fraction num / den
jaroSimilarity(s1, s2) ==
  IF s1 = s2 THEN [num |-> 1, den |-> 1]
  ELSE IF Len(s1) = 0 \/ Len(s2) = 0 THEN [num |-> 0, den |-> 1]
  ELSE LET found == findMatches(s1, s2, 1, {}, {})
           matches == Cardinality(found.s1Matches)
           transpositions == countTranspositions(s1, s2, found.s1Matches, found.s2Matches)
       IN IF matches = 0 THEN [num |-> 0, den |-> 1]
          ELSE [num |-> 2 * matches * matches * (Len(s1) + Len(s2))
                          + (2 * matches - transpositions) * Len(s1) * Len(s2),
                den |-> 6 * matches * Len(s1) * Len(s2)]

\* lines 99-114, with prefixScale = 0.1
jaroWinklerSimilarity(s1, s2) ==
  LET jaroSim == jaroSimilarity(s1, s2)
      maxPrefix == Smaller(4, Smaller(Len(s1), Len(s2)))
      prefixLength == CHOOSE k \in 0..maxPrefix :
                        /\ \A i \in 1..k : s1[i] = s2[i]
                        /\ k < maxPrefix => s1[k + 1] # s2[k + 1]
  IN (10 * jaroSim.num + prefixLength * (jaroSim.den - jaroSim.num))
       * (ScoreUnit \div (10 * jaroSim.den))

\* ------------------------------------------------------------ configuration
\* thresholds and minConfidence in hundredths
DEFAULT_CONFIG ==
  [thresholds |-> [Person |-> 90, Organization |-> 85, Location |-> 80,
                   Project |-> 80, Concept |-> 75],
   allowNewEntities |-> TRUE,
   minConfidence |-> 60]

\* the Partial<ResolverConfig> objects a resolver is constructed with: one
\* that changes nothing, a floor above every threshold, a threshold of zero
NoOverride == [allowNewEntities |-> TRUE]
HighFloor == [minConfidence |-> 95]
ZeroThreshold ==
  [thresholds |-> [Person |-> 0, Organization |-> 85, Location |-> 80,
                   Project |-> 80, Concept |-> 75]]
PartialConfigs == {NoOverride, HighFloor, ZeroThreshold}

\* { ...DEFAULT_CONFIG, ...config } (line 170): the fields given replace the
\* default fields whole
mergeConfig(partial) == partial @@ DEFAULT_CONFIG

\* property names every object inherits from Object.prototype
InheritedKeys == {"constructor", "toString", "valueOf", "hasOwnProperty"}

\* this.config.thresholds[entityType] || this.config.minConfidence (lines
\* 219-220): an own key with a truthy number gives that number, zero and a
\* missing key give minConfidence, and an inherited key gives a function,
\* which is truthy and against which every comparison is false
thresholdFor(cfg, entityType) ==
  IF entityType \in DOMAIN cfg.thresholds
  THEN [isNumber |-> TRUE,
        value |-> Hundredths(IF cfg.thresholds[entityType] # 0 THEN cfg.thresholds[entityType]
                             ELSE cfg.minConfidence)]
  ELSE IF entityType \in InheritedKeys
       THEN [isNumber |-> FALSE, value |-> 0]
       ELSE [isNumber |-> TRUE, value |-> Hundredths(cfg.minConfidence)]

\* score >= threshold
atLeast(score, threshold) == threshold.isNumber /\ score >= threshold.value

\* ------------------------------------------------------------------- index
EmptyMaps == [byNormalizedName |-> <<>>, byAlias |-> <<>>, byType |-> <<>>]

\* lines 150-153
RECURSIVE indexAliases(_, _, _)
indexAliases(byAlias, entity, aliases) ==
  IF aliases = <<>> THEN byAlias
  ELSE indexAliases((normalizeForComparison(Head(aliases)) :> entity) @@ byAlias,
                    entity, Tail(aliases))

\* a turn of the loop in which a key already in a map keeps its entity
indexEntityKeepFirst(maps, entity) ==
  [byNormalizedName |-> maps.byNormalizedName @@ (normalizeForComparison(entity.name) :> entity),
   byAlias |-> maps.byAlias @@ indexAliases(<<>>, entity, entity.aliases),
   byType |-> (entity.type :> Append(IF entity.type \in DOMAIN maps.byType
                                     THEN maps.byType[entity.type] ELSE <<>>,
                                     entity)) @@ maps.byType]

\* one turn of the loop of buildEntityLookup (lines 145-159)
indexEntity(maps, entity) ==
  [byNormalizedName |-> (normalizeForComparison(entity.name) :> entity) @@ maps.byNormalizedName,
   byAlias |-> indexAliases(maps.byAlias, entity, entity.aliases),
   byType |-> (entity.type :> Append(IF entity.type \in DOMAIN maps.byType
                                     THEN maps.byType[entity.type] ELSE <<>>,
                                     entity)) @@ maps.byType]

RECURSIVE indexEntities(_, _)
indexEntities(maps, entities) ==
  IF entities = <<>> THEN maps
  ELSE indexEntities(indexEntity(maps, Head(entities)), Tail(entities))

\* a variant that adds the entities to the maps of the index in use
buildEntityLookupInPlace(entities) ==
  LET old == IF lookup.loaded
             THEN [byNormalizedName |-> lookup.byNormalizedName,
                   byAlias |-> lookup.byAlias, byType |-> lookup.byType]
             ELSE EmptyMaps
      maps == indexEntities(old, entities)
  IN [loaded |-> TRUE, byNormalizedName |-> maps.byNormalizedName,
      byAlias |-> maps.byAlias, byType |-> maps.byType, all |-> entities]

\* lines 132-160: three new maps are filled and returned with the list
buildEntityLookup(entities) ==
  LET maps == indexEntities(EmptyMaps, entities)
  IN [loaded |-> TRUE, byNormalizedName |-> maps.byNormalizedName,
      byAlias |-> maps.byAlias, byType |-> maps.byType, all |-> entities]

\* a variant that also refuses an index built from no entities
initializedNonEmpty(lk) == lk.loaded /\ lk.all # <<>>

\* this.lookup is not null (line 187)
initialized(lk) == lk.loaded

\* ----------------------------------------------------------------- resolve
MAX_SUGGESTIONS == 5
Null == "null"

\* a variant that asks the alias map first
tierAliasFirst(lk, normalizedName) ==
  IF normalizedName \in DOMAIN lk.byAlias THEN "alias"
  ELSE IF normalizedName \in DOMAIN lk.byNormalizedName THEN "exact"
  ELSE "fuzzy"

\* the order of the tiers (lines 195, 207, 218)
tier(lk, normalizedName) ==
  IF normalizedName \in DOMAIN lk.byNormalizedName THEN "exact"
  ELSE IF normalizedName \in DOMAIN lk.byAlias THEN "alias"
  ELSE "fuzzy"

\* the scores of one candidate: its name, then its aliases (lines 232-245)
scoresOf(normalizedName, candidate) ==
  <<jaroWinklerSimilarity(normalizedName, normalizeForComparison(candidate.name))>>
    \o [i \in 1..Len(candidate.aliases) |->
          jaroWinklerSimilarity(normalizedName, normalizeForComparison(candidate.aliases[i]))]

\* Math.max over a candidate's scores (lines 253-258)
RECURSIVE maxOf(_)
maxOf(scores) ==
  IF Len(scores) = 1 THEN scores[1] ELSE Larger(scores[1], maxOf(Tail(scores)))

NoMatch == [found |-> FALSE, path |-> Null, score |-> 0]

\* score >= threshold && (!bestMatch || score > bestMatch.score)
\* (lines 237 and 247)
RECURSIVE bestOfScores(_, _, _, _)
\* a variant in which a score equal to the best one also replaces it
RECURSIVE bestOfScoresOrEqual(_, _, _, _)
bestOfScoresOrEqual(bestMatch, candidate, scores, threshold) ==
  IF scores = <<>> THEN bestMatch
  ELSE bestOfScoresOrEqual(
         IF atLeast(Head(scores), threshold)
            /\ (~bestMatch.found \/ Head(scores) >= bestMatch.score)
         THEN [found |-> TRUE, path |-> candidate.path, score |-> Head(scores)]
         ELSE bestMatch,
         candidate, Tail(scores), threshold)

bestOfScores(bestMatch, candidate, scores, threshold) ==
  IF scores = <<>> THEN bestMatch
  ELSE bestOfScores(
         IF atLeast(Head(scores), threshold)
            /\ (~bestMatch.found \/ Head(scores) > bestMatch.score)
         THEN [found |-> TRUE, path |-> candidate.path, score |-> Head(scores)]
         ELSE bestMatch,
         candidate, Tail(scores), threshold)

\* the for loop over entitiesToSearch, bestMatch part (lines 230-250)
RECURSIVE findBestMatch(_, _, _, _)
findBestMatch(bestMatch, candidates, normalizedName, threshold) ==
  IF candidates = <<>> THEN bestMatch
  ELSE findBestMatch(
         bestOfScores(bestMatch, Head(candidates),
                      scoresOf(normalizedName, Head(candidates)), threshold),
         Tail(candidates), normalizedName, threshold)

\* the for loop over entitiesToSearch, suggestions part (lines 252-266)
RECURSIVE collectSuggestions(_, _, _)
collectSuggestions(candidates, normalizedName, minConfidence) ==
  IF candidates = <<>> THEN <<>>
  ELSE LET maxScore == maxOf(scoresOf(normalizedName, Head(candidates)))
           rest == collectSuggestions(Tail(candidates), normalizedName, minConfidence)
       IN IF maxScore >= minConfidence
          THEN <<[path |-> Head(candidates).path, confidence |-> maxScore,
                  matchType |-> "fuzzy"]>> \o rest
          ELSE rest

\* suggestions.sort((a, b) => b.confidence - a.confidence) (line 270); the
\* sort is stable: an entry is put behind the entries that are not smaller
RECURSIVE insertSuggestion(_, _)
insertSuggestion(sorted, entry) ==
  IF sorted = <<>> THEN <<entry>>
  ELSE IF Head(sorted).confidence >= entry.confidence
       THEN <<Head(sorted)>> \o insertSuggestion(Tail(sorted), entry)
       ELSE <<entry>> \o sorted

RECURSIVE sortSuggestions(_)
sortSuggestions(list) ==
  IF list = <<>> THEN <<>>
  ELSE insertSuggestion(sortSuggestions(SubSeq(list, 1, Len(list) - 1)), list[Len(list)])

\* a variant that returns the whole list
sliceNothing(list) == list

\* suggestions.slice(0, 5) (lines 279 and 290)
sliceSuggestions(list) == SubSeq(list, 1, Smaller(MAX_SUGGESTIONS, Len(list)))

Decision(entityName, entityType, matchType, confidence, matchedTo, hasSuggestions, suggestions) ==
  [kind |-> "decision", entity |-> entityName, type |-> entityType,
   matchType |-> matchType, confidence |-> confidence, matchedTo |-> matchedTo,
   hasSuggestions |-> hasSuggestions, suggestions |-> suggestions]

\* resolve on an index that is loaded (lines 191-291)
resolveWith(cfg, lk, entityName, entityType) ==
  LET normalizedName == normalizeForComparison(entityName)
      found == tier(lk, normalizedName)
  IN IF found = "exact"
     THEN Decision(entityName, entityType, "exact", Hundredths(100),
                   lk.byNormalizedName[normalizedName].path, FALSE, <<>>)
     ELSE IF found = "alias"
     THEN Decision(entityName, entityType, "alias", Hundredths(95),
                   lk.byAlias[normalizedName].path, FALSE, <<>>)
     ELSE LET threshold == thresholdFor(cfg, entityType)
              sameTypeEntities == IF entityType \in DOMAIN lk.byType THEN lk.byType[entityType]
                                  ELSE <<>>
              entitiesToSearch == IF Len(sameTypeEntities) > 0 THEN sameTypeEntities ELSE lk.all
              bestMatch == findBestMatch(NoMatch, entitiesToSearch, normalizedName, threshold)
              suggestions == sortSuggestions(
                               collectSuggestions(entitiesToSearch, normalizedName,
                                                  Hundredths(cfg.minConfidence)))
          IN IF bestMatch.found /\ atLeast(bestMatch.score, threshold)
             THEN Decision(entityName, entityType, "fuzzy", bestMatch.score, bestMatch.path,
                           TRUE, sliceSuggestions(suggestions))
             ELSE Decision(entityName, entityType, "new", 0, Null,
                           TRUE, sliceSuggestions(suggestions))

NotInitialized == [kind |-> "error", message |-> "Resolver not initialized. Call loadEntities() first."]

\* resolve (lines 183-292)
resolve(cfg, lk, entityName, entityType) ==
  IF ~initialized(lk) THEN NotInitialized
  ELSE resolveWith(cfg, lk, entityName, entityType)

\* ----------------------------------------------------------- the resolver
\* The vault entities a collection is made of (VaultEntity: name, type, path,
\* aliases).  Two share a normalized name, one has another one's name as an
\* alias, two share an alias, one holds punctuation.
VaultEntities ==
  << [name |-> <<"a", "b", "c", "d", "e">>, type |-> "Person", path |-> "p1",
      aliases |-> <<>>],
     [name |-> <<"a", "b", "c", "d", "f">>, type |-> "Person", path |-> "p2",
      aliases |-> << <<"a", "b", "x", "y", "z">> >>],
     [name |-> <<"A", "B", "C", "D", "E">>, type |-> "Concept", path |-> "p3",
      aliases |-> <<>>],
     [name |-> <<"a", "b", "x", "y", "z">>, type |-> "Concept", path |-> "p4",
      aliases |-> << <<"a", "b", "c", "d", "f">> >>],
     [name |-> <<"a", "b", "c", "x", "x">>, type |-> "Person", path |-> "p5",
      aliases |-> <<>>],
     [name |-> <<"a", "b", "c">>, type |-> "Concept", path |-> "p6",
      aliases |-> << <<"a", "b", "x", "y", "z">>, <<"a", "b", " ", "c">> >>],
     [name |-> <<"a", "b", ".", "c", "d", "e">>, type |-> "Person", path |-> "p7",
      aliases |-> <<>>] >>

\* the entities at the positions in `chosen`, in the order of the list
RECURSIVE pick(_, _, _)
pick(list, chosen, i) ==
  IF i > Len(list) THEN <<>>
  ELSE (IF i \in chosen THEN <<list[i]>> ELSE <<>>) \o pick(list, chosen, i + 1)

\* the collections loadEntities is called with: at most MaxEntities entities
Collections ==
  {pick(VaultEntities, chosen, 1) :
     chosen \in SUBSET (1..Smaller(MaxEntities, Len(VaultEntities)))}

\* the mentions resolve is called with: the entities' own names, a spelling
\* with a blank and capitals, a string that is only an alias, a near miss of
\* several names, a stranger
MentionNames ==
  {VaultEntities[i].name : i \in 1..Len(VaultEntities)}
    \cup {<<" ", "A", "b", "c", "d", "e">>, <<"a", "b", " ", "c">>,
          <<"a", "b", "c", "d", "g">>, <<"v", "w", "x", "y", "z">>}
\* two types with a threshold, one without, and one that names a property
\* every object inherits
MentionTypes == {"Person", "Concept", "Event", "constructor"}

\* new EntityResolver(config) (lines 165-171)
ResolverInit ==
  /\ \E partial \in PartialConfigs : config = mergeConfig(partial)
  /\ lookup = [loaded |-> FALSE]
  /\ mention = [given |-> FALSE]
  /\ resolution = [kind |-> "none"]
  /\ dropped = {}
  /\ BuildIdle
  /\ HandlerIdle
  /\ NormalizeIdle
  /\ VaultIdle

\* Both methods are synchronous: a call runs to its end before the caller
\* goes on, so calls follow one another in any order but never overlap.
\* loadEntities (lines 176-178): the index is built and then assigned
LoadEntities ==
  /\ ~mention.given
  /\ \E entities \in Collections :
       /\ lookup' = buildEntityLookup(entities)
       /\ dropped' = IF lookup.loaded
                     THEN DOMAIN lookup.byNormalizedName
                            \ {normalizeForComparison(entities[i].name) : i \in 1..Len(entities)}
                     ELSE {}
  /\ UNCHANGED <<config, mention, resolution, outsideResolver>>

\* resolve (lines 183-292): the call and what it returns or throws
Resolve ==
  /\ ~mention.given
  /\ \E entityName \in MentionNames, entityType \in MentionTypes :
       /\ mention' = [given |-> TRUE, name |-> entityName, type |-> entityType]
       /\ resolution' = resolve(config, lookup, entityName, entityType)
  /\ UNCHANGED <<config, lookup, dropped, outsideResolver>>

\* the caller has taken the result of resolve and goes on
Return ==
  /\ mention.given
  /\ mention' = [given |-> FALSE]
  /\ resolution' = [kind |-> "none"]
  /\ UNCHANGED <<config, lookup, dropped, outsideResolver>>

ResolverNext == LoadEntities \/ Resolve \/ Return

ResolverSpec == ResolverInit /\ [][ResolverNext]_vars


\* ================================================================ claims
Done == pc = "done"

EdgeIdx == 1..Len(graphEdges)
DepIdx == 1..Len(dependencyDocs)
BundlePaths == {dependencyDocs[i].vault_path : i \in DepIdx}
OptionalBundled == Cardinality({i \in DepIdx : ~dependencyDocs[i].required})

EdgeAdded == Len(graphEdges') = Len(graphEdges) + 1
NewEdge == graphEdges'[Len(graphEdges')]

NoRepeat(log) == \A i, j \in 1..Len(log) : log[i] = log[j] => i = j

\* the mode policy as the specification states it, over the bundle built so far
PolicyAdmits(required) ==
  \/ mode = "root_plus_required" /\ required
  \/ mode = "context_pack" /\ (required \/ OptionalBundled < optionalLimit)

\* C1: the traversal terminates: in every mode, for every contextDepth in 1..4
\* and every reference graph (cycles and self-references included) the queue
\* runs empty and the result is returned.
C1_Terminates == <>Done

\* a finished context_pack build at depth 4 over a two-node cycle and a self-reference
C1_Witness ==
  /\ Done /\ mode = "context_pack" /\ contextDepth = MAX_CONTEXT_DEPTH
  /\ \E i, j, k \in EdgeIdx :
       /\ graphEdges[i].source_path = "a.md" /\ graphEdges[i].target_path = "b.md"
       /\ graphEdges[j].source_path = "b.md" /\ graphEdges[j].target_path = "a.md"
       /\ graphEdges[k].source_path = "b.md" /\ graphEdges[k].target_path = "b.md"
       /\ graphEdges[i].included /\ graphEdges[j].included /\ graphEdges[k].included

\* C2: in one traversal every path is enqueued at most once and has its
\* references extracted at most once, and every path occurs once in the nodes
\* (of the running graph and of the returned report).
NodePaths(nodes) == {nodes[i].vault_path : i \in 1..Len(nodes)}

C2_OncePerPath ==
  /\ NoRepeat(pushLog)
  /\ NoRepeat(extractLog)
  /\ NoRepeat([i \in 1..Len(graphNodes) |-> graphNodes[i].vault_path])
  /\ \A i \in 1..Len(pushLog) : pushLog[i] \in NodePaths(graphNodes)
  /\ \A i \in 1..Len(extractLog) : extractLog[i] \in NodePaths(graphNodes)
  /\ \A i \in EdgeIdx : graphEdges[i].exists => graphEdges[i].target_path \in NodePaths(graphNodes)
  /\ report.built =>
       /\ NoRepeat([i \in 1..Len(report.nodes) |-> report.nodes[i].vault_path])
       /\ NodePaths(report.nodes) = NodePaths(graphNodes)

\* a processed document that three references reach, at two different depths
C2_Witness ==
  /\ Done
  /\ \E i, j, k \in EdgeIdx :
       /\ i # j /\ j # k /\ i # k
       /\ graphEdges[i].target_path = "b.md"
       /\ graphEdges[j].target_path = "b.md"
       /\ graphEdges[k].target_path = "b.md"
       /\ graphEdges[i].target_depth # graphEdges[k].target_depth
  /\ \E n \in 1..Len(extractLog) : extractLog[n] = "b.md"

\* C3: a reference that passes the mode policy and whose target is already in
\* the bundle is marked included with reason dedup and adds nothing to the
\* bundle; hence no path occurs twice in the bundle.
C3_DedupStep ==
  EdgeAdded =>
    ((/\ NewEdge.exists
      /\ PolicyAdmits(NewEdge.required)
      /\ NewEdge.target_path \in BundlePaths)
     => /\ NewEdge.included
        /\ NewEdge.include_reason = "dedup"
        /\ NewEdge.skip_reason = NoReason
        /\ dependencyDocs' = dependencyDocs
        /\ currentBytes' = currentBytes)

C3_BundleOnce == NoRepeat([i \in DepIdx |-> dependencyDocs[i].vault_path])

C3_Dedup == [][C3_DedupStep]_vars /\ []C3_BundleOnce

\* a dependency bundled at depth 1 and met again, deduplicated, at depth 2
C3_Witness ==
  /\ Done
  /\ \E i, j \in EdgeIdx :
       /\ i < j
       /\ graphEdges[i].target_path = "b.md"
       /\ graphEdges[i].include_reason = "required_reference"
       /\ graphEdges[j].target_path = "b.md"
       /\ graphEdges[j].include_reason = "dedup"
       /\ graphEdges[j].source_depth = 1

\* C4: the root counts as included from the start: it is never added to the
\* dependency bundle, and an included reference to it has reason dedup.
C4_RootNeverBundled ==
  /\ normalizedDocPath \notin BundlePaths
  /\ \A i \in EdgeIdx :
       (graphEdges[i].target_path = normalizedDocPath /\ graphEdges[i].included)
         => graphEdges[i].include_reason = "dedup"

\* C5: root bytes plus bundled dependency bytes never exceed the ceiling.
RECURSIVE BundleBytes(_)
BundleBytes(n) == IF n = 0 THEN 0 ELSE dependencyDocs[n].bytes + BundleBytes(n - 1)

PayloadBytes == docContentCache[normalizedDocPath] + BundleBytes(Len(dependencyDocs))

C5_WithinCeiling == PayloadBytes <= MAX_SHARE_PAYLOAD_BYTES

\* C6: a dependency whose bytes would push the total over the ceiling is
\* recorded as excluded with skip_reason payload_limit; bundle, queue and byte
\* counter stay as they were and the build goes on.
C6_PayloadLimitStep ==
  EdgeAdded =>
    ((/\ NewEdge.exists
      /\ PolicyAdmits(NewEdge.required)
      /\ NewEdge.target_path \notin BundlePaths
      /\ NewEdge.target_path \in DOMAIN docContentCache'
      /\ PayloadBytes + docContentCache'[NewEdge.target_path] > MAX_SHARE_PAYLOAD_BYTES)
     => /\ ~NewEdge.included
        /\ NewEdge.skip_reason = "payload_limit"
        /\ NewEdge.include_reason = NoReason
        /\ dependencyDocs' = dependencyDocs
        /\ traversalQueue' = traversalQueue
        /\ queuedPaths' = queuedPaths
        /\ currentBytes' = currentBytes
        /\ pc' \in {"loop", "refs"})

C6_PayloadLimit == [][C6_PayloadLimitStep]_vars

\* a payload_limit exclusion followed by a dependency that still fits
C6_Witness ==
  /\ Done
  /\ \E i, j \in EdgeIdx :
       /\ i < j
       /\ graphEdges[i].skip_reason = "payload_limit"
       /\ graphEdges[j].include_reason = "required_reference"
  /\ PayloadBytes = MAX_SHARE_PAYLOAD_BYTES

\* C7: root_only includes no reference and bundles nothing; root_plus_required
\* includes only required references, so every bundled dependency is required.
C7_ModePolicy ==
  /\ mode = "root_only" =>
       /\ dependencyDocs = <<>>
       /\ \A i \in EdgeIdx : ~graphEdges[i].included
  /\ mode = "root_plus_required" =>
       /\ \A i \in DepIdx : dependencyDocs[i].required
       /\ \A i \in EdgeIdx : graphEdges[i].included => graphEdges[i].required

\* root_plus_required: a required reference bundled, an optional reference to
\* an existing document left out
C7_Witness ==
  /\ Done /\ mode = "root_plus_required"
  /\ Len(dependencyDocs) = 1
  /\ \E i \in EdgeIdx :
       /\ ~graphEdges[i].required /\ graphEdges[i].exists
       /\ ~graphEdges[i].included /\ graphEdges[i].skip_reason = "mode"

\* C8: in context_pack at most optionalLimit dependencies are bundled through
\* optional references, over the whole traversal; a required reference is never
\* turned down by the mode policy; an optional reference evaluated when the
\* budget is used up is excluded with skip_reason optional_limit.
C8_BudgetHeld == mode = "context_pack" => OptionalBundled <= optionalLimit

C8_BudgetStep ==
  (EdgeAdded /\ mode = "context_pack") =>
    /\ NewEdge.required => NewEdge.skip_reason \notin {"mode", "optional_limit"}
    /\ (~NewEdge.required /\ OptionalBundled >= optionalLimit)
         => (~NewEdge.included /\ NewEdge.skip_reason = "optional_limit"
             /\ dependencyDocs' = dependencyDocs)

C9_UnresolvedReason ==
  \A i \in EdgeIdx :
    ~graphEdges[i].exists =>
      (~graphEdges[i].included /\ graphEdges[i].skip_reason = "unresolved")

\* C10: the summary agrees with the edges: total = resolved + unresolved,
\* missing_references counts the edges with exists=false or included=false and
\* splits into required_missing + optional_missing by the required flag, and
\* the counts of excluded_by_reason add up to missing_references.
RECURSIVE SumOver(_, _)
SumOver(f, keys) ==
  IF keys = {} THEN 0
  ELSE LET k == CHOOSE x \in keys : TRUE IN f[k] + SumOver(f, keys \ {k})

ReportEdgeIdx == 1..Len(report.edges)
MissingIdx == {i \in ReportEdgeIdx : ~report.edges[i].exists \/ ~report.edges[i].included}

C10_SummaryConsistent ==
  report.built =>
    LET sm == report.summary IN
    /\ sm.total_references = Len(report.edges)
    /\ sm.total_references = sm.resolved_references + sm.unresolved_references
    /\ sm.unresolved_references = Cardinality({i \in ReportEdgeIdx : ~report.edges[i].exists})
    /\ sm.missing_references = Cardinality(MissingIdx)
    /\ sm.missing_references = Len(report.missing_references)
    /\ sm.required_missing = Cardinality({i \in MissingIdx : report.edges[i].required})
    /\ sm.optional_missing = Cardinality({i \in MissingIdx : ~report.edges[i].required})
    /\ sm.missing_references = sm.required_missing + sm.optional_missing
    /\ SumOver(sm.excluded_by_reason, DOMAIN sm.excluded_by_reason) = sm.missing_references

\* root_plus_required, one required embed of an existing note and one optional
\* link to a note that does not exist
C10_Witness ==
  /\ report.built /\ mode = "root_plus_required"
  /\ Len(report.edges) = 2
  /\ report.dependency_count = 1
  /\ \E i, j \in ReportEdgeIdx :
       /\ report.edges[i].required /\ report.edges[i].included
       /\ ~report.edges[j].required /\ ~report.edges[j].exists /\ ~report.edges[j].included
  /\ report.summary.required_missing = 0
  /\ report.summary.optional_missing = 1

\* ---------------------------------------------------------------- C11
\* C11: depth cap. A target is put on the traversal queue only below the
\* requested depth, so no document is processed at depth >= contextDepth,
\* every bundled dependency carries a depth in 1..contextDepth, the reported
\* max_depth_reached never exceeds max_depth_requested, and with
\* contextDepth = 1 only the root document is processed.
C11_DepthCap ==
  /\ \A i \in 1..Len(traversalQueue) : traversalQueue[i].depth < contextDepth
  /\ current.docPath # NoPath => current.depth < contextDepth
  /\ maxDepthReached < contextDepth
  /\ \A i \in DepIdx : dependencyDocs[i].depth \in 1..contextDepth
  /\ report.built => report.max_depth_reached <= report.max_depth_requested
  /\ contextDepth = 1 => /\ processedPaths \subseteq {normalizedDocPath}
                         /\ \A i \in 1..Len(extractLog) : extractLog[i] = normalizedDocPath

\* a finished build that went below the root and bundled a dependency at the
\* requested depth without ever processing it
C11_Witness ==
  /\ Done
  /\ maxDepthReached >= 1
  /\ \E i \in DepIdx : /\ dependencyDocs[i].depth = contextDepth
                       /\ dependencyDocs[i].vault_path \notin processedPaths

\* ---------------------------------------------------------------- C13
\* C13: a referenced document that is missing or whose read throws never
\* aborts the build. Its edge is recorded with included = FALSE and a
\* skip_reason, nothing is bundled for it, and the finished build has
\* processed every queued document and returns a report holding that edge
\* among its missing references.
C13_ReadFailureTolerated ==
  /\ readFailures \subseteq EdgeIdx
  /\ \A i \in EdgeIdx :
       (i \in readFailures \/ ~graphEdges[i].exists)
         => /\ ~graphEdges[i].included
            /\ graphEdges[i].include_reason = NoReason
            /\ graphEdges[i].skip_reason # NoReason
  /\ \A i \in readFailures : graphEdges[i].skip_reason = "read_failed"
  /\ Done => /\ report.built
             /\ \A i \in 1..Len(pushLog) : pushLog[i] \in processedPaths
             /\ \A i \in EdgeIdx :
                  (i \in readFailures \/ ~graphEdges[i].exists)
                    => /\ report.edges[i] = graphEdges[i]
                       /\ \E k \in 1..Len(report.missing_references) :
                            report.missing_references[k] = graphEdges[i]

\* a finished build in which a dependency read threw and a later reference
\* was still evaluated and bundled
C13_Witness ==
  /\ Done
  /\ \E i \in readFailures : \E k \in EdgeIdx :
       /\ k > i
       /\ graphEdges[k].include_reason \in {"required_reference", "context_pack_optional"}
  /\ \E i \in EdgeIdx : ~graphEdges[i].exists

\* ---------------------------------------------------------------- C14
\* C14: a depth-limit breach is a recorded outcome. When a bundled
\* dependency holds references that are not followed because the depth limit
\* is reached, the finished report holds edges for those references, each
\* with a skip_reason.
C14_DepthBreachRecorded ==
  Done => \A p \in unfollowed :
            \E i \in ReportEdgeIdx : /\ report.edges[i].source_path = p
                                     /\ report.edges[i].skip_reason # NoReason

\* ---------------------------------------------------------------- C12
RecipientTypeValid(raw) == ~raw.given \/ raw = Str("") \/ raw.text \in RECIPIENT_TYPES
ModeValid(raw) == ~raw.given \/ raw = Str("") \/ raw.text \in SHARE_MODES
ContextDepthValid(raw) ==
  ~raw.given \/ (raw.finite /\ \E n \in 1..MAX_CONTEXT_DEPTH : raw.halves = 2 * n)
ArgsValid ==
  /\ RecipientTypeValid(args.recipient_type)
  /\ ModeValid(args.mode)
  /\ ContextDepthValid(args.context_depth)

\* C12: share_document validates before any work. With an unknown mode, a
\* context_depth that is not an integer in 1..4 or an invalid recipient_type,
\* buildSharePayload is never called, nothing is posted to the backend, and
\* the result returned is an error whose text names the valid values of a
\* parameter that is invalid.
C12_ValidatedBeforeWork ==
  ~ArgsValid =>
    /\ builds = <<>>
    /\ posts = <<>>
    /\ handler.pc \notin {"build", "post"}
    /\ handler.pc = "returned" => result.returned
    /\ result.returned =>
         /\ result.isError
         /\ \/ /\ ~RecipientTypeValid(args.recipient_type)
               /\ result.text = <<"recipient_type must be one of: peer, commons">>
            \/ /\ ~ModeValid(args.mode)
               /\ Len(result.text) = 3
               /\ result.text[3] = "'. Valid modes: root_only, root_plus_required, context_pack"
            \/ /\ ~ContextDepthValid(args.context_depth)
               /\ result.text \in {<<"context_depth must be an integer between 1 and 4">>,
                                   <<"context_depth must be between 1 and 4">>}

\* a call whose only fault is a depth above the range, with the mode spelt in
\* upper case between blanks, has returned its error
C12_Witness ==
  /\ args.context_depth = Num(MAX_CONTEXT_DEPTH + 1)
  /\ args.mode.text = "context_pack" /\ args.mode.padded /\ args.mode.upper
  /\ RecipientTypeValid(args.recipient_type)
  /\ result.returned
  /\ result.isError
  /\ builds = <<>>

\* ---------------------------------------------------------------- C19
\* C19: normalizeForComparison is idempotent: normalizing a normalized string
\* gives that string again, also for strings with punctuation between blanks
\* or at the ends.
C19_Idempotent ==
  Len(passes) >= 2 => passes[2] = passes[1]

\* ---------------------------------------------------------------- C15
\* C15: on a resolver on which loadEntities was never called, resolve throws
\* the 'not initialized' error for every name and type and returns no
\* decision; once loadEntities has been called, with an empty collection
\* too, resolve returns a decision.
C15_NotInitialized ==
  mention.given =>
    /\ ~lookup.loaded => resolution = NotInitialized
    /\ lookup.loaded => /\ resolution.kind = "decision"
                        /\ resolution.entity = mention.name
                        /\ resolution.type = mention.type

\* a decision returned by a resolver loaded with the empty collection
C15_Witness ==
  /\ lookup.loaded
  /\ lookup.all = <<>>
  /\ mention.given
  /\ resolution.kind = "decision"

\* ---------------------------------------------------------------- C16
\* what the loaded collection holds, read off the list itself
EntityIdx == 1..Len(lookup.all)
NameKeys == {normalizeForComparison(lookup.all[i].name) : i \in EntityIdx}
AliasKeys ==
  UNION {{normalizeForComparison(lookup.all[i].aliases[k]) :
            k \in 1..Len(lookup.all[i].aliases)} : i \in EntityIdx}
Answered == lookup.loaded /\ mention.given
MentionKey == normalizeForComparison(mention.name)

\* C16: tier precedence. A mention that is the name of an entity of the
\* collection, asked with that entity's type, is answered exact with
\* confidence 1.0 whatever else the collection holds; alias (confidence 0.95)
\* is answered only when no entity name equals the normalized mention; fuzzy
\* and new are answered only when neither names nor aliases hold it.
C16_TierPrecedence ==
  Answered =>
    /\ (\E i \in EntityIdx : /\ lookup.all[i].name = mention.name
                             /\ lookup.all[i].type = mention.type)
         => /\ resolution.matchType = "exact"
            /\ resolution.confidence = Hundredths(100)
    /\ MentionKey \in NameKeys
         => /\ resolution.matchType = "exact"
            /\ resolution.confidence = Hundredths(100)
    /\ resolution.matchType = "alias"
         => /\ MentionKey \notin NameKeys
            /\ MentionKey \in AliasKeys
            /\ resolution.confidence = Hundredths(95)
    /\ resolution.matchType \in {"fuzzy", "new"}
         => /\ MentionKey \notin NameKeys
            /\ MentionKey \notin AliasKeys

\* an exact answer for the name and type of an entity, in a collection where
\* another entity has that name as an alias and a third one all but the name
C16_Witness ==
  /\ Answered
  /\ resolution.matchType = "exact"
  /\ \E i \in EntityIdx : /\ lookup.all[i].name = mention.name
                          /\ lookup.all[i].type = mention.type
  /\ mention.name \in AliasKeys
  /\ Len(lookup.all) >= 3

\* ---------------------------------------------------------------- C17
\* the threshold of the claim: the configured per-type threshold for a type
\* that is a key of the thresholds, the floor for every other type
ClaimedThreshold ==
  Hundredths(IF mention.type \in DOMAIN config.thresholds
             THEN config.thresholds[mention.type]
             ELSE config.minConfidence)
\* the candidate pool: the entities of the mention's type, or all when there
\* are none
PoolIdx ==
  IF \E i \in EntityIdx : lookup.all[i].type = mention.type
  THEN {i \in EntityIdx : lookup.all[i].type = mention.type}
  ELSE EntityIdx
\* the scores of candidate i: its name and its aliases against the mention
CandidateScores(i) ==
  {jaroWinklerSimilarity(MentionKey, normalizeForComparison(lookup.all[i].name))}
    \cup {jaroWinklerSimilarity(MentionKey, normalizeForComparison(lookup.all[i].aliases[k])) :
            k \in 1..Len(lookup.all[i].aliases)}
FuzzyTier == Answered /\ resolution.matchType \in {"fuzzy", "new"}

\* C17: a fuzzy decision has confidence >= threshold(type), and a decision is
\* new exactly when no candidate of the pool scores at or above
\* threshold(type).
C17_FuzzyThreshold ==
  FuzzyTier =>
    /\ resolution.matchType = "fuzzy" => resolution.confidence >= ClaimedThreshold
    /\ resolution.matchType = "new"
         <=> \A i \in PoolIdx : \A score \in CandidateScores(i) : score < ClaimedThreshold

\* ---------------------------------------------------------------- C18
SuggestionIdx == 1..Len(resolution.suggestions)
\* the candidates of the pool whose best score reaches the floor
Qualified ==
  {i \in PoolIdx : \E score \in CandidateScores(i) : score >= Hundredths(config.minConfidence)}

\* C18: in every decision the suggestions are sorted by confidence, highest
\* first, there are at most 5 of them, and each has a confidence at or above
\* the minimum-confidence floor.
C18_SuggestionsBounded ==
  Answered =>
    /\ Len(resolution.suggestions) <= MAX_SUGGESTIONS
    /\ \A i \in SuggestionIdx : \A k \in SuggestionIdx :
         i < k => resolution.suggestions[i].confidence >= resolution.suggestions[k].confidence
    /\ \A i \in SuggestionIdx :
         resolution.suggestions[i].confidence >= Hundredths(config.minConfidence)
    /\ ~resolution.hasSuggestions => resolution.suggestions = <<>>

\* a decision with five suggestions of differing confidence although more
\* than five candidates reach the floor
C18_Witness ==
  /\ FuzzyTier
  /\ Len(resolution.suggestions) = MAX_SUGGESTIONS
  /\ Cardinality(Qualified) > MAX_SUGGESTIONS
  /\ resolution.suggestions[1].confidence > resolution.suggestions[MAX_SUGGESTIONS].confidence

\* ---------------------------------------------------------------- C20
\* the last entity of the loaded list whose name, or one of whose aliases,
\* normalizes to `key`
LastNamed(key) ==
  lookup.all[CHOOSE i \in EntityIdx :
               /\ normalizeForComparison(lookup.all[i].name) = key
               /\ \A k \in EntityIdx :
                    normalizeForComparison(lookup.all[k].name) = key => k <= i]
HasAlias(i, key) ==
  \E k \in 1..Len(lookup.all[i].aliases) :
    normalizeForComparison(lookup.all[i].aliases[k]) = key
LastAliased(key) ==
  lookup.all[CHOOSE i \in EntityIdx :
               HasAlias(i, key) /\ \A k \in EntityIdx : HasAlias(k, key) => k <= i]

\* C20: loadEntities swaps the index as a whole. In every state between
\* calls and at every resolve the index in use is the complete index of one
\* collection, the one passed to the latest loadEntities call: its name,
\* alias and type maps hold the entries of that collection and no others, no
\* name key dropped by the swap is left, and a decision names only entities
\* of that collection.
C20_AtomicSwap ==
  lookup.loaded =>
    /\ DOMAIN lookup.byNormalizedName = NameKeys
    /\ \A key \in NameKeys : lookup.byNormalizedName[key] = LastNamed(key)
    /\ DOMAIN lookup.byAlias = AliasKeys
    /\ \A key \in AliasKeys : lookup.byAlias[key] = LastAliased(key)
    /\ DOMAIN lookup.byType = {lookup.all[i].type : i \in EntityIdx}
    /\ \A i \in EntityIdx :
         \E k \in 1..Len(lookup.byType[lookup.all[i].type]) :
           lookup.byType[lookup.all[i].type][k] = lookup.all[i]
    /\ \A t \in DOMAIN lookup.byType :
         /\ Len(lookup.byType[t]) = Cardinality({i \in EntityIdx : lookup.all[i].type = t})
         /\ \A k \in 1..Len(lookup.byType[t]) : lookup.byType[t][k].type = t
    /\ dropped \cap DOMAIN lookup.byNormalizedName = {}
    /\ mention.given =>
         /\ resolution.matchedTo \in {lookup.all[i].path : i \in EntityIdx} \cup {Null}
         /\ \A k \in SuggestionIdx :
              resolution.suggestions[k].path \in {lookup.all[i].path : i \in EntityIdx}
         /\ MentionKey \in dropped => resolution.matchType # "exact"

\* a resolve call made after a swap that dropped the mention's name key: the
\* answer is drawn from the new collection
C20_Witness ==
  /\ Answered
  /\ MentionKey \in dropped
  /\ resolution.matchType = "fuzzy"
  /\ Len(lookup.all) >= 2

\* ---------------------------------------------------------------------------
\* C24: depth and included flag of the nodes of the graph report

\* the depths at which the edges of a list discovered a path
DiscoveryDepths(edges, p) ==
  {edges[i].target_depth : i \in {j \in 1..Len(edges) : edges[j].exists /\ edges[j].target_path = p}}

MinOf(S) == CHOOSE d \in S : \A e \in S : d <= e

\* the depth of a node against the edges of a list
DepthIsMinimum(nodes, edges) ==
  \A i \in 1..Len(nodes) :
    IF nodes[i].vault_path = normalizedDocPath
    THEN nodes[i].depth = 0
    ELSE /\ DiscoveryDepths(edges, nodes[i].vault_path) # {}
         /\ nodes[i].depth = MinOf(DiscoveryDepths(edges, nodes[i].vault_path))

IncludedIffBundled(nodes, deps) ==
  \A i \in 1..Len(nodes) :
    nodes[i].included <=>
      (nodes[i].vault_path = normalizedDocPath
         \/ \E k \in 1..Len(deps) : deps[k].vault_path = nodes[i].vault_path)

\* a node once included stays included, and a node keeps its place in the list
IncludedOnlyRises ==
  \A i \in 1..Len(graphNodes) :
    /\ i <= Len(graphNodes')
    /\ graphNodes'[i].vault_path = graphNodes[i].vault_path
    /\ graphNodes[i].included => graphNodes'[i].included

\* C24: at every moment of the traversal and in the report, the depth of a node
\* is the least depth of the edges that discovered it (0 for the root); the
\* included flag of a node never goes back from true to false; and in the
\* report a node is included exactly when it is the root or its path is in
\* the dependency bundle.
C24_NodeDepthAndIncluded ==
  /\ [](DepthIsMinimum(graphNodes, graphEdges))
  /\ [](report.built => /\ DepthIsMinimum(report.nodes, report.edges)
                        /\ IncludedIffBundled(report.nodes, report.dependencies))
  /\ [][IncludedOnlyRises]_vars

\* a report with a node discovered at two depths, included by the deeper
\* reference after an excluded reference had discovered it
C24_Witness ==
  /\ report.built
  /\ \E i \in 1..Len(report.nodes) :
       /\ Cardinality(DiscoveryDepths(report.edges, report.nodes[i].vault_path)) >= 2
       /\ report.nodes[i].included
       /\ \E a, b \in ReportEdgeIdx :
            /\ a < b
            /\ report.edges[a].target_path = report.nodes[i].vault_path
            /\ report.edges[b].target_path = report.nodes[i].vault_path
            /\ report.edges[a].exists /\ ~report.edges[a].included
            /\ report.edges[b].included
            /\ report.edges[b].target_depth > report.edges[a].target_depth

\* ---------------------------------------------------------------------------
\* C25: first in, first out

IsPrefix(s, t) == Len(s) <= Len(t) /\ \A i \in 1..Len(s) : s[i] = t[i]

\* the depths along the queue never go down, and every entry waiting is at the
\* depth of the document being scanned or one below it
QueueInDepthOrder ==
  /\ \A i, j \in 1..Len(traversalQueue) :
       i <= j => traversalQueue[i].depth <= traversalQueue[j].depth
  /\ \A i \in 1..Len(traversalQueue) :
       /\ traversalQueue[i].depth >= current.depth
       /\ traversalQueue[i].depth <= current.depth + 1

\* a step that starts another document starts one at the same depth or deeper
DepthNeverGoesBack == current' # current => current'.depth >= current.depth

\* C25: the documents whose references were scanned are, in order, the first
\* documents that were enqueued, whichever way the file reads ended; the
\* depths at which documents are processed never decrease.
C25_FifoByDiscovery ==
  /\ [](IsPrefix(extractLog, pushLog) /\ QueueInDepthOrder)
  /\ [][DepthNeverGoesBack]_vars

\* three documents were processed, the last one deeper than the second, and a
\* read had failed on the way
C25_Witness ==
  /\ Len(extractLog) >= 3
  /\ current.depth >= 2
  /\ readFailures # {}

\* ---------------------------------------------------------------------------
\* C29: the edge records

IncludedEdgeSound(edge) ==
  /\ edge.exists
  /\ edge.target_path \in Docs
  /\ edge.include_reason \in {"required_reference", "context_pack_optional", "dedup"}
  /\ edge.skip_reason = NoReason

ExcludedEdgeSound(edge) ==
  /\ edge.skip_reason # NoReason
  /\ edge.include_reason = NoReason

\* C29: in the report every included edge exists, has a resolved target path,
\* one of the three include reasons and no skip reason; every edge that is not
\* included has a skip reason and no include reason; the edges and the
\* references are as many, one edge for each evaluated reference in the same
\* order; and the included and the missing references add up to the total.
C29_EdgesSelfConsistent ==
  report.built =>
    /\ \A i \in ReportEdgeIdx :
         IF report.edges[i].included
         THEN IncludedEdgeSound(report.edges[i])
         ELSE ExcludedEdgeSound(report.edges[i])
    /\ Len(report.edges) = Len(report.references)
    /\ \A i \in ReportEdgeIdx :
         /\ report.references[i].raw_target = report.edges[i].raw_target
         /\ report.references[i].source_path = report.edges[i].source_path
         /\ report.references[i].included = report.edges[i].included
    /\ report.summary.included_references + report.summary.missing_references
         = report.summary.total_references

\* a report with an edge included by dedup, an edge to a target that does not
\* exist and an edge that was read and bundled
C29_Witness ==
  /\ report.built
  /\ \E i, j, k \in ReportEdgeIdx :
       /\ report.edges[i].include_reason = "dedup"
       /\ ~report.edges[j].exists
       /\ report.edges[k].include_reason = "required_reference"

\* ---------------------------------------------------------------------------
\* C30: the depths of the bundle against the depths of the report's nodes

\* C30: every dependency of the bundle other than the root document carries
\* the depth of the node of the report that has its path.
C30_BundleDepthIsNodeDepth ==
  report.built =>
    \A k \in 1..Len(report.dependencies) :
      report.dependencies[k].vault_path # normalizedDocPath =>
        \E i \in 1..Len(report.nodes) :
          /\ report.nodes[i].vault_path = report.dependencies[k].vault_path
          /\ report.nodes[i].depth = report.dependencies[k].depth

\* ---------------------------------------------------------------------------
\* C23: the last write wins

\* no entity after the i-th of the loaded list has the name key, or declares
\* the alias key
LastWithName(i, key) ==
  \A j \in EntityIdx : j > i => normalizeForComparison(lookup.all[j].name) # key
LastWithAlias(i, key) ==
  \A j \in EntityIdx : j > i => ~HasAlias(j, key)

TimesIn(list, entity) == Cardinality({k \in 1..Len(list) : list[k] = entity})

\* C23: in a built index the entry of a name key is the entity of the loaded
\* list that comes last among those with that normalized name, the entry of
\* an alias key is the entity that comes last among those declaring that
\* alias, and every entity of the list, one whose name or alias entry went to
\* a later entity too, is once in the list of its type and once in the full
\* list.
C23_LastWriteWins ==
  lookup.loaded =>
    \A i \in EntityIdx :
      LET entity == lookup.all[i]
          nameKey == normalizeForComparison(entity.name)
      IN /\ (lookup.byNormalizedName[nameKey] = entity) <=> LastWithName(i, nameKey)
         /\ \A k \in 1..Len(entity.aliases) :
              LET aliasKey == normalizeForComparison(entity.aliases[k])
              IN (lookup.byAlias[aliasKey] = entity) <=> LastWithAlias(i, aliasKey)
         /\ TimesIn(lookup.byType[entity.type], entity) = 1
         /\ TimesIn(lookup.all, entity) = 1

\* an index built from a list in which a later entity took the name key of
\* an earlier one and a later entity took an alias key of an earlier one
C23_Witness ==
  /\ lookup.loaded
  /\ \E i, j \in EntityIdx :
       /\ i < j
       /\ normalizeForComparison(lookup.all[i].name) = normalizeForComparison(lookup.all[j].name)
  /\ \E i, j \in EntityIdx, key \in AliasKeys :
       i < j /\ HasAlias(i, key) /\ HasAlias(j, key)

\* ---------------------------------------------------------------------------
\* C26: the winner is among the suggestions

\* C26: whatever the configuration, the suggestions of a fuzzy decision hold
\* an entry with the path of the match and the confidence of the decision,
\* and no suggestion has a confidence above the decision's.
C26_WinnerSuggested ==
  (Answered /\ resolution.matchType = "fuzzy") =>
    /\ \E k \in SuggestionIdx :
         /\ resolution.suggestions[k].path = resolution.matchedTo
         /\ resolution.suggestions[k].confidence = resolution.confidence
    /\ \A k \in SuggestionIdx :
         resolution.suggestions[k].confidence <= resolution.confidence

\* ---------------------------------------------------------------------------
\* C27: the candidate pool and ties

TypeInCorpus == \E i \in EntityIdx : lookup.all[i].type = mention.type

\* the candidates of the pool that reach the decision's confidence
Winners == {i \in PoolIdx : resolution.confidence \in CandidateScores(i)}

\* C27: in a decision of the fuzzy tier every suggestion is a candidate of
\* the pool, which is the entities of the mention's type when the corpus has
\* any and the whole corpus otherwise, and in that case every entity of the
\* corpus that reaches the floor is suggested while there is room; the match
\* of a fuzzy decision is the first candidate of the pool, in scan order,
\* among those with the best score.
C27_PoolAndTies ==
  FuzzyTier =>
    /\ \A k \in SuggestionIdx :
         \E i \in PoolIdx : lookup.all[i].path = resolution.suggestions[k].path
    /\ TypeInCorpus =>
         \A k \in SuggestionIdx, i \in EntityIdx :
           lookup.all[i].path = resolution.suggestions[k].path => lookup.all[i].type = mention.type
    /\ (~TypeInCorpus /\ Cardinality(Qualified) <= MAX_SUGGESTIONS) =>
         \A i \in EntityIdx :
           (\E score \in CandidateScores(i) : score >= Hundredths(config.minConfidence))
             => \E k \in SuggestionIdx : resolution.suggestions[k].path = lookup.all[i].path
    /\ resolution.matchType = "fuzzy" =>
         /\ Winners # {}
         /\ \A i \in PoolIdx : \A score \in CandidateScores(i) : score <= resolution.confidence
         /\ resolution.matchedTo = lookup.all[CHOOSE i \in Winners : \A j \in Winners : i <= j].path
         /\ TypeInCorpus =>
              \A i \in EntityIdx :
                lookup.all[i].path = resolution.matchedTo => lookup.all[i].type = mention.type

\* a fuzzy decision on a tie between two candidates of the mention's type,
\* while an entity of another type scores as high
C27_Witness ==
  /\ Answered
  /\ resolution.matchType = "fuzzy"
  /\ Cardinality(Winners) >= 2
  /\ \E i \in EntityIdx \ PoolIdx : resolution.confidence \in CandidateScores(i)

\* ---------------------------------------------------------------------------
\* C21: nothing outside the vault root is touched

\* where a path leads: the names are walked one by one, from the filesystem
\* root for a path with a leading slash and from the vault root otherwise
RECURSIVE Walk(_, _)
Walk(at, names) ==
  IF names = <<>> THEN at
  ELSE Walk(IF Head(names) = Dot THEN at
            ELSE IF Head(names) = DotDot
                 THEN (IF at = <<>> THEN at ELSE SubSeq(at, 1, Len(at) - 1))
                 ELSE Append(at, Head(names)),
            Tail(names))
Location(p) == Walk(IF p.lead > 0 THEN <<>> ELSE getVaultPath, p.segs)

\* an absolute path is the vault root or lies below it
UnderRoot(abs) ==
  Len(abs) >= Len(getVaultPath) /\ SubSeq(abs, 1, Len(getVaultPath)) = getVaultPath

VaultToolCalled == vaultCall.op \in {"vault_read_note", "vault_write_note", "vault_list_notes"}

ReferenceResolved == vaultCall.op = "reference" /\ vaultCall.raw_target.form \notin {"url", "anchor", "blank"}

\* a vault-relative path leads under the root to something that is there
Present(p) ==
  UnderRoot(Location(p)) /\ Location(p) \in vaultFiles \cup Dirs(vaultFiles)

\* the target as a path, and the path tried first: relative to the folder
\* of the referencing document, or to the vault root after a leading slash
TargetPath == Path(vaultCall.raw_target.lead, vaultCall.raw_target.segs)
RelativeFirst == relativeCandidate(vaultCall.source, TargetPath)

\* the target has no separator and no extension
BareTitle ==
  /\ vaultCall.raw_target.lead = 0
  /\ Len(vaultCall.raw_target.segs) = 1
  /\ vaultCall.raw_target.segs[1].ext = ""

PresentInBucket == {k \in 1..Len(vaultCall.bucket) : Present(vaultCall.bucket[k])}

\* C22: resolveLocalNoteTarget returns the relative candidate whenever it
\* exists, whatever the basename index holds; when it does not exist and the
\* target is a bare title, it returns the first entry of the index bucket
\* that exists; for a target with a separator or an extension the index is
\* not asked, so nothing is found when the relative candidate is absent.
C22_RelativeBeforeIndex ==
  ReferenceResolved =>
    /\ Present(RelativeFirst) =>
         /\ vaultAnswer.resolved.exists
         /\ vaultAnswer.resolved.resolvedPath = RelativeFirst
    /\ (~Present(RelativeFirst) /\ BareTitle) =>
         /\ vaultAnswer.resolved.exists <=> PresentInBucket # {}
         /\ vaultAnswer.resolved.exists =>
              vaultAnswer.resolved.resolvedPath
                = vaultCall.bucket[CHOOSE k \in PresentInBucket : \A j \in PresentInBucket : k <= j]
    /\ (~Present(RelativeFirst) /\ ~BareTitle) => ~vaultAnswer.resolved.exists

\* the relative candidate and a file of the same name elsewhere in the vault
\* both exist, the index holds the other one first, and the relative one is
\* returned
C22_Witness ==
  /\ ReferenceResolved
  /\ BareTitle
  /\ Present(RelativeFirst)
  /\ Len(vaultCall.bucket) >= 2
  /\ vaultCall.bucket[1] # RelativeFirst
  /\ vaultAnswer.resolved.resolvedPath = RelativeFirst

\* ---------------------------------------------------------------------------
\* C28: a share whose payload cannot be built

\* the parameters were valid (the build was called) and the build threw
BuildFailed ==
  /\ handler.pc \in {"post", "returned"}
  /\ Len(builds) = 1
  /\ handler.contents = "undefined"

\* C28: with valid parameters a document whose path leads outside the vault
\* always fails to build; after a failed build, whatever its cause, the
\* handler has returned no error and goes on to post; its one request holds
\* the document rid, the recipient, the share mode and the context depth
\* that were validated, and neither contents nor references; the only error
\* it may still return is that of the request itself.
C28_ShareWithoutContents ==
  /\ (Len(builds) = 1 /\ handler.pc \in {"post", "returned"}
        /\ ~UnderRoot(Location(args.document_path))) => BuildFailed
  /\ (BuildFailed /\ handler.pc = "post") => ~result.returned /\ posts = <<>>
  /\ (BuildFailed /\ handler.pc = "returned") =>
       /\ Len(posts) = 1
       /\ posts[1].document_rid = [scheme |-> "orn:obsidian.note:", path |-> args.document_path]
       /\ posts[1].recipient = args.recipient
       /\ posts[1].share_mode = handler.shareMode
       /\ posts[1].share_mode \in SHARE_MODES
       /\ posts[1].context_depth = handler.contextDepth
       /\ posts[1].context_depth \in 1..MAX_CONTEXT_DEPTH
       /\ posts[1].contents = "undefined"
       /\ posts[1].references = "undefined"
       /\ result.returned
       /\ result.isError => result.text = <<"KOI API error (share_document): ", "message">>

\* a share of a document outside the vault that was posted without contents
\* and answered by the backend
C28_Witness ==
  /\ BuildFailed
  /\ handler.pc = "returned"
  /\ ~UnderRoot(Location(args.document_path))
  /\ Len(posts) = 1
  /\ ~result.isError

====
